---- MODULE Spec2Model ----
(***************************************************************************)
(* Codex-Switch: the backup dedup engine (internal/core/service.go), its   *)
(* persisted index store (internal/core/store.go) and the atomic file      *)
(* helpers (internal/util).                                                *)
(*                                                                         *)
(* Strings of the program are modelled as sequences of tokens: a label     *)
(* "auto-3-1" is <<"auto","3","1">> (fmt.Sprintf("%s-%d", ...) appends a   *)
(* token), a whitespace run is the token " ", the empty string is <<>>.    *)
(* File contents are sequences of bytes.  A SHA-256 digest is modelled as  *)
(* the pair <<first 12 hex digits, rest>>: the whole digest is injective   *)
(* in the content, its 12-digit prefix is not (contents whose first bytes  *)
(* have the same parity share it).                                         *)
(***************************************************************************)
EXTENDS Integers, Sequences, FiniteSets, TLC

\* ------------------------------------------------------------------ bounds
\* Number of backup ids (uuid.New) the model hands out.
MaxItems == 3
\* The wall clock shows the seconds 1..MaxTime; it may stand still or be set
\* back between two readings, so a reading is any of them.
MaxTime == 1
\* Largest retry counter of persistBackup the model follows.
MaxCounter == 2
\* Number of calls (Scan, DeleteBackup, RestoreBackup, UpdateRemark) in a run
\* where calls overlap.
MaxCalls == 2
\* Number of calls in a run where each call returns before the next begins.
MaxSeqCalls == 3
\* Number of calls to the store in a run of the store alone.
MaxStoreCalls == 4
\* Calls of Store.update by the goroutines of two instances.
MaxLockCalls == 3
\* Scans in a run of two goroutines scanning while labels are updated.
MaxRaceCalls == 2
\* Ticks and manual scans in a run of the scheduler
MaxSchedCalls == 3
\* Scans and deletes in a run where labels and file names run out
MaxNameCalls == 3

\* -------------------------------------------------------------- vocabulary
ErrRemarkExists == "remark already exists"
ErrBackupNotFound == "backup not found"
ErrRemarkBlank == "remark must not be blank"
ErrStorage == "storage error"
ErrIO == "io error"
ErrUnmarshal == "unmarshal index"

ReasonMissing == "target missing"
ReasonUnchanged == "unchanged"
ReasonDuplicate == "duplicate content"

TargetPathName == "auth.json"
Sha256Name == "sha256"

\* Contents the target file can have (byte sequences): of the same size and
\* with the same short digest, the case where fingerprints and file names
\* are most likely to coincide.
Contents == {<<1>>, <<3>>}
\* Stat identities (mtime, inode, device) the target can show.
Stats == {1, 2}

\* Labels a caller may send (before strings.TrimSpace), and nil.
RawRemarks == {<<" ">>, <<" ", "x">>}
Reqs == {<<>>} \cup {<<r>> : r \in RawRemarks}
NewRemarks == {<<>>, <<"x", " ">>, <<"auto", "1">>}

\* The callers of Scan: the HTTP handlers (handleScan, CreateBackup: manual,
\* any label) and the scheduler loop of Service.Start (automatic, no label).
Api == "api"
Sched == "scheduler"
Procs == {Api, Sched}
\* Every caller scanning as the handlers do.
ScanArgsManual(p) == [isAuto : {FALSE}, req : Reqs]

ScanArgs(p) ==
  IF p = Sched THEN {[isAuto |-> TRUE, req |-> <<>>]}
  ELSE [isAuto : {FALSE}, req : Reqs]

NoTarget == [exists |-> FALSE, content |-> <<>>, stat |-> 0]

\* A stat that reports a missing file as an empty one.
ComputeFingerprintEmpty(t) ==
  IF ~t.exists THEN [err |-> "", Fingerprint |-> <<0, 0>>, Size |-> 0, ModTime |-> 0]
  ELSE [err |-> "", Fingerprint |-> <<Len(t.content), t.stat>>,
        Size |-> Len(t.content), ModTime |-> t.stat]

\* ---------------------------------------------------------- hash.go
\* ComputeFingerprint: the digest of "size|mtime|inode|dev", truncated.
ComputeFingerprint(t) ==
  IF ~t.exists THEN [err |-> "not exist", Fingerprint |-> <<>>, Size |-> 0, ModTime |-> 0]
  ELSE [err |-> "", Fingerprint |-> <<Len(t.content), t.stat>>,
        Size |-> Len(t.content), ModTime |-> t.stat]

\* SHA-256 of a byte sequence: <<first 12 hex digits, the rest>>.
Sha256Hex(data) == <<IF data = <<>> THEN 0 ELSE data[1] % 2, data>>

\* ComputeContentHash: one read pass gives the digest and the bytes.
ComputeContentHash(t) ==
  IF ~t.exists THEN [err |-> ErrIO, hash |-> <<>>, data |-> <<>>]
  ELSE [err |-> "", hash |-> Sha256Hex(t.content), data |-> t.content]

\* ShortHash: the first 12 characters (the first block of the digest).
ShortHash(contentHash) ==
  IF Len(contentHash) <= 1 THEN contentHash ELSE SubSeq(contentHash, 1, 1)

\* ---------------------------------------------------------- backup.go
\* ts.Format("20060102-150405")
FormatTime(t) == ToString(t)

\* BuildBackupFilename: "{timestamp}_{shortDigest}.json"; the third
\* component is the "-N" suffix EnsureUniqueFilename may add (0: none).
BuildBackupFilename(ts, contentHash) == <<FormatTime(ts), ShortHash(contentHash), 0>>

\* A directory is a set of <<file name, bytes>> pairs, one per name.
FileExists(dir, filename) == \E e \in dir : e[1] = filename
ReadFile(dir, filename) == (CHOOSE e \in dir : e[1] = filename)[2]
RemoveFile(dir, filename) == {e \in dir : e[1] # filename}

\* A suffixed name taken without looking whether the file exists.
uniqueUnchecked(dir, base, counter) == <<base[1], base[2], counter>>

RECURSIVE uniqueFrom(_, _, _)
uniqueFrom(dir, base, counter) ==
  LET candidate == <<base[1], base[2], counter>> IN
  IF ~FileExists(dir, candidate) THEN candidate ELSE uniqueFrom(dir, base, counter + 1)

\* An allocation that takes the base name as it is.
UseBaseFilename(dir, base) == base

\* EnsureUniqueFilename: base if free, else base-1, base-2, ...
EnsureUniqueFilename(dir, base) ==
  IF ~FileExists(dir, base) THEN base ELSE uniqueFrom(dir, base, 1)

\* A write that creates the file and loses its bytes.
WriteBackupEmpty(dir, filename, data) ==
  {e \in dir : e[1] # filename} \cup {<<filename, <<>>>>}

\* WriteBackupFile: util.AtomicWriteFile renames a temp file over the path.
WriteBackupFile(dir, filename, data) ==
  RemoveFile(dir, filename) \cup {<<filename, data>>}

\* ---------------------------------------------------------- store.go
ZeroItem ==
  [ID |-> 0, Filename |-> <<>>, ContentHash |-> <<>>, FileFingerprint |-> <<>>,
   Size |-> 0, CreatedAt |-> 0, Remark |-> <<>>, IsAuto |-> FALSE,
   SourcePath |-> "", LastModified |-> 0]

ZeroIndex ==
  [TargetPath |-> "", HashAlgo |-> "", LatestFingerprint |-> <<>>,
   Items |-> <<>>, Remarks |-> {}]

ensureDefaults(idx) ==
  [idx EXCEPT !.HashAlgo = IF @ = "" THEN Sha256Name ELSE @,
              !.TargetPath = IF @ = "" THEN TargetPathName ELSE @]

\* json.MarshalIndent of an IndexData: the document as a sequence of chunks.
Marshal(idx) ==
  <<"{", <<"target_path", idx.TargetPath>>, <<"hash_algo", idx.HashAlgo>>,
    <<"latest_fingerprint", idx.LatestFingerprint>>, <<"items", idx.Items>>,
    <<"remarks", idx.Remarks>>, "}">>
MarshalLen == Len(Marshal(ZeroIndex))

\* json.Unmarshal: only a complete document parses.
Unmarshal(data) ==
  IF Len(data) # MarshalLen THEN [err |-> ErrUnmarshal, idx |-> ZeroIndex]
  ELSE [err |-> "",
        idx |-> [TargetPath |-> data[2][2], HashAlgo |-> data[3][2],
                 LatestFingerprint |-> data[4][2], Items |-> data[5][2],
                 Remarks |-> data[6][2]]]

\* A file of the data directory: its bytes and how many of them are durable.
NoFile == [exists |-> FALSE, data |-> <<>>, synced |-> 0]
FileOf(data) == [exists |-> TRUE, data |-> data, synced |-> Len(data)]

\* loadIndexUnlocked: a missing index file is the empty index.
loadIndexUnlocked(file) ==
  IF ~file.exists THEN [err |-> "", idx |-> ensureDefaults(ZeroIndex)]
  ELSE LET u == Unmarshal(file.data) IN
       IF u.err # "" THEN u ELSE [err |-> "", idx |-> ensureDefaults(u.idx)]

\* A lookup that finds no label.
HasNoRemark(idx, r) == FALSE

\* A delete that leaves the map as it is.
KeepRemark(remarks, r) == remarks

\* The map Remarks is a set of <<label, id>> pairs, one per label.
HasRemark(idx, r) == \E e \in idx.Remarks : e[1] = r
RemarkOwner(idx, r) == (CHOOSE e \in idx.Remarks : e[1] = r)[2]
SetRemark(remarks, r, id) == {e \in remarks : e[1] # r} \cup {<<r, id>>}
DelRemark(remarks, r) == {e \in remarks : e[1] # r}

\* An AddBackup that leaves LatestFingerprint as it was.
addBackupKeepLatest(idx, item, latestFingerprint) ==
  IF item.Remark # <<>> /\ (\E e \in idx.Remarks : e[1] = item.Remark /\ e[2] # item.ID)
  THEN [err |-> ErrRemarkExists, idx |-> idx]
  ELSE [err |-> "",
        idx |-> [idx EXCEPT
                   !.Remarks = IF item.Remark # <<>>
                               THEN {e \in @ : e[1] # item.Remark}
                                      \cup {<<item.Remark, item.ID>>}
                               ELSE @,
                   !.Items = Append(@, item)]]

\* An UpdateLatestFingerprint that writes the index back as it was.
updateLatestNothing(idx, fingerprint) == [err |-> "", idx |-> idx]

\* An UpdateLatestFingerprint that writes an index holding the signature only.
updateLatestAlone(idx, fingerprint) ==
  [err |-> "", idx |-> [ensureDefaults(ZeroIndex) EXCEPT !.LatestFingerprint = fingerprint]]

\* The mutator of Store.AddBackup.
addBackupMutator(idx, item, latestFingerprint) ==
  IF item.Remark # <<>> /\ HasRemark(idx, item.Remark)
     /\ RemarkOwner(idx, item.Remark) # item.ID
  THEN [err |-> ErrRemarkExists, idx |-> idx]
  ELSE [err |-> "",
        idx |-> [idx EXCEPT
                   !.Remarks = IF item.Remark # <<>>
                               THEN SetRemark(@, item.Remark, item.ID) ELSE @,
                   !.Items = Append(@, item),
                   !.LatestFingerprint = latestFingerprint]]

\* The mutator of Store.UpdateLatestFingerprint.
updateLatestFingerprintMutator(idx, fingerprint) ==
  [err |-> "", idx |-> [idx EXCEPT !.LatestFingerprint = fingerprint]]

\* Position of the first item with this id, 0 if none.
IndexOfID(items, id) ==
  IF \E i \in 1..Len(items) : items[i].ID = id
  THEN CHOOSE i \in 1..Len(items) :
         /\ items[i].ID = id
         /\ \A j \in 1..(i - 1) : items[j].ID # id
  ELSE 0

\* An UpdateRemark that puts the label on every entry.
updateRemarkEvery(idx, id, newRemark) ==
  [err |-> "",
   idx |-> [idx EXCEPT !.Items = [i \in 1..Len(@) |-> [@[i] EXCEPT !.Remark = newRemark]]],
   item |-> ZeroItem]

\* The mutator of Store.UpdateRemark.
updateRemarkMutator(idx, id, newRemark) ==
  LET i == IndexOfID(idx.Items, id) IN
  IF i = 0 THEN [err |-> ErrBackupNotFound, idx |-> idx, item |-> ZeroItem]
  ELSE LET item == idx.Items[i] IN
    IF item.Remark = newRemark THEN [err |-> "", idx |-> idx, item |-> item]
    ELSE IF newRemark # <<>> /\ HasRemark(idx, newRemark) /\ RemarkOwner(idx, newRemark) # id
    THEN [err |-> ErrRemarkExists, idx |-> idx, item |-> ZeroItem]
    ELSE LET r1 == IF item.Remark # <<>> THEN DelRemark(idx.Remarks, item.Remark)
                   ELSE idx.Remarks
             r2 == IF newRemark # <<>> THEN SetRemark(r1, newRemark, id) ELSE r1
             it == [item EXCEPT !.Remark = newRemark]
         IN [err |-> "",
             idx |-> [idx EXCEPT !.Items[i] = it, !.Remarks = r2],
             item |-> it]

\* A comparison of times the wrong way round.
Before(t, u) == t < u

\* time.Time.After.
After(t, u) == t > u

\* sort.Slice(items, less) with less(i, j) = items[i].CreatedAt.After(
\* items[j].CreatedAt): the sort is not stable, so it may leave any
\* arrangement of the items in which no item stands before one that less
\* puts ahead of it.
sortSlice(items) ==
  LET n == Len(items)
      perms == {f \in [1..n -> 1..n] : \A i, j \in 1..n : i # j => f[i] # f[j]}
      outs == {[i \in 1..n |-> items[f[i]]] : f \in perms}
  IN {out \in outs :
        \A i, j \in 1..n : i < j => ~After(out[j].CreatedAt, out[i].CreatedAt)}

\* Store.ListBackups: what it may return on an index file; the sort works on
\* a copy of the items of the snapshot.
ListBackups(file) ==
  LET l == loadIndexUnlocked(file) IN
  IF l.err # "" THEN {[err |-> l.err, items |-> <<>>]}
  ELSE {[err |-> "", items |-> out] : out \in sortSlice(l.idx.Items)}

\* The loop of Store.DeleteBackup: the kept items, the removed one and the
\* newest kept one (by CreatedAt, the first of equals).
RECURSIVE deleteLoop(_, _, _, _)
deleteLoop(items, id, i, acc) ==
  IF i > Len(items) THEN acc
  ELSE LET item == items[i] IN
    IF item.ID = id
    THEN deleteLoop(items, id, i + 1, [acc EXCEPT !.removed = item, !.found = TRUE])
    ELSE deleteLoop(items, id, i + 1,
           [acc EXCEPT !.items = Append(@, item),
                       !.latest = IF @.CreatedAt = 0 \/ After(item.CreatedAt, @.CreatedAt)
                                  THEN item ELSE @])

\* A DeleteBackup that leaves the latest signature as it was.
deleteKeepLatest(idx, id) ==
  LET r == deleteLoop(idx.Items, id, 1,
             [items |-> <<>>, removed |-> ZeroItem, found |-> FALSE, latest |-> ZeroItem])
  IN IF ~r.found THEN [err |-> ErrBackupNotFound, idx |-> idx, item |-> ZeroItem]
     ELSE [err |-> "",
           idx |-> [idx EXCEPT
                      !.Items = r.items,
                      !.Remarks = IF r.removed.Remark # <<>>
                                  THEN DelRemark(@, r.removed.Remark) ELSE @],
           item |-> r.removed]

\* The mutator of Store.DeleteBackup.
deleteBackupMutator(idx, id) ==
  LET r == deleteLoop(idx.Items, id, 1,
             [items |-> <<>>, removed |-> ZeroItem, found |-> FALSE, latest |-> ZeroItem])
  IN IF ~r.found THEN [err |-> ErrBackupNotFound, idx |-> idx, item |-> ZeroItem]
     ELSE [err |-> "",
           idx |-> [idx EXCEPT
                      !.Items = r.items,
                      !.Remarks = IF r.removed.Remark # <<>>
                                  THEN DelRemark(@, r.removed.Remark) ELSE @,
                      !.LatestFingerprint = IF r.latest.ID # 0
                                            THEN r.latest.FileFingerprint ELSE <<>>],
           item |-> r.removed]

\* util.AtomicWriteJSON as one step: the new document replaces the file, or
\* (a failing step) the file stays as it was.
AtomicWriteJSON(file, idx, fail) ==
  IF fail THEN [err |-> ErrStorage, file |-> file]
  ELSE [err |-> "", file |-> FileOf(Marshal(idx))]

\* An update that goes on to the write whatever the mutator returned.
stageAnyway(m) == [err |-> "", idx |-> ensureDefaults(m.idx)]

\* Store.update between the mutator and the write: m is the mutator's
\* outcome on the loaded index; its error ends the update.
stage(m) == [err |-> m.err, idx |-> ensureDefaults(m.idx)]

\* Store.update after the mutator ran.
commit(file, m, fail) ==
  LET s == stage(m) IN
  IF s.err # "" THEN [err |-> s.err, file |-> file]
  ELSE AtomicWriteJSON(file, s.idx, fail)

\* Store.Snapshot / Store.FindByID / the four updating calls, each on the
\* index file as it is when the store's lock is held.
AddBackup(file, item, latestFingerprint, fail) ==
  LET l == loadIndexUnlocked(file) IN
  IF l.err # "" THEN [err |-> l.err, file |-> file]
  ELSE commit(file, addBackupMutator(l.idx, item, latestFingerprint), fail)

UpdateLatestFingerprint(file, fingerprint, fail) ==
  LET l == loadIndexUnlocked(file) IN
  IF l.err # "" THEN [err |-> l.err, file |-> file]
  ELSE commit(file, updateLatestFingerprintMutator(l.idx, fingerprint), fail)

UpdateRemark(file, id, newRemark, fail) ==
  LET l == loadIndexUnlocked(file) IN
  IF l.err # "" THEN [err |-> l.err, file |-> file, item |-> ZeroItem]
  ELSE LET m == updateRemarkMutator(l.idx, id, newRemark)
           c == commit(file, m, fail)
       IN [err |-> c.err, file |-> c.file, item |-> IF c.err = "" THEN m.item ELSE ZeroItem]

DeleteBackup(file, id, fail) ==
  LET l == loadIndexUnlocked(file) IN
  IF l.err # "" THEN [err |-> l.err, file |-> file, item |-> ZeroItem]
  ELSE LET m == deleteBackupMutator(l.idx, id)
           c == commit(file, m, fail)
       IN [err |-> c.err, file |-> c.file, item |-> IF c.err = "" THEN m.item ELSE ZeroItem]

\* A lookup that falls back on the first entry.
FindByIDOrFirst(file, id) ==
  LET l == loadIndexUnlocked(file) IN
  IF l.err # "" THEN [err |-> l.err, item |-> ZeroItem]
  ELSE LET i == IndexOfID(l.idx.Items, id) IN
       IF i = 0 /\ l.idx.Items = <<>> THEN [err |-> ErrBackupNotFound, item |-> ZeroItem]
       ELSE [err |-> "", item |-> l.idx.Items[IF i = 0 THEN 1 ELSE i]]

FindByID(file, id) ==
  LET l == loadIndexUnlocked(file) IN
  IF l.err # "" THEN [err |-> l.err, item |-> ZeroItem]
  ELSE LET i == IndexOfID(l.idx.Items, id) IN
       IF i = 0 THEN [err |-> ErrBackupNotFound, item |-> ZeroItem]
       ELSE [err |-> "", item |-> l.idx.Items[i]]

\* ---------------------------------------------------------- service.go
\* findByContentHash: the first item with this digest, as <<item>>, or <<>>.
findByContentHash(items, hash) ==
  LET S == {i \in 1..Len(items) : items[i].ContentHash = hash} IN
  IF S = {} THEN <<>>
  ELSE <<items[CHOOSE i \in S : \A j \in S : i <= j]>>

\* strings.TrimSpace on a token sequence.
RECURSIVE TrimLeft(_)
TrimLeft(r) == IF r # <<>> /\ Head(r) = " " THEN TrimLeft(Tail(r)) ELSE r
RECURSIVE TrimRight(_)
TrimRight(r) ==
  IF r # <<>> /\ r[Len(r)] = " " THEN TrimRight(SubSeq(r, 1, Len(r) - 1)) ELSE r
TrimSpace(r) == TrimRight(TrimLeft(r))

\* A suffix taken without looking whether the label is in use.
candidateUnchecked(idx, remark, counter) == Append(remark, ToString(counter))

RECURSIVE candidateFrom(_, _, _)
candidateFrom(idx, remark, counter) ==
  LET candidate == Append(remark, ToString(counter)) IN
  IF ~HasRemark(idx, candidate) THEN candidate
  ELSE candidateFrom(idx, remark, counter + 1)

\* A label resolution that renames a supplied label already in use.
prepareRemarkRenaming(idx, isAuto, req, t) ==
  IF req # <<>> /\ TrimSpace(req[1]) # <<>>
  THEN [err |-> "",
        remark |-> IF HasRemark(idx, TrimSpace(req[1]))
                   THEN candidateFrom(idx, TrimSpace(req[1]), 1) ELSE TrimSpace(req[1])]
  ELSE IF req # <<>> THEN [err |-> ErrRemarkBlank, remark |-> <<>>]
  ELSE LET remark == <<IF isAuto THEN "auto" ELSE "manual", FormatTime(t)>> IN
       [err |-> "",
        remark |-> IF HasRemark(idx, remark) THEN candidateFrom(idx, remark, 1) ELSE remark]

\* A label resolution that takes a blank supplied label as it is.
prepareRemarkBlank(idx, isAuto, req, t) ==
  IF req # <<>>
  THEN IF HasRemark(idx, TrimSpace(req[1])) THEN [err |-> ErrRemarkExists, remark |-> <<>>]
       ELSE [err |-> "", remark |-> TrimSpace(req[1])]
  ELSE LET remark == <<IF isAuto THEN "auto" ELSE "manual", FormatTime(t)>> IN
       [err |-> "",
        remark |-> IF HasRemark(idx, remark) THEN candidateFrom(idx, remark, 1) ELSE remark]

\* prepareRemark: req is <<>> (nil) or <<label>>; t is time.Now().
prepareRemark(idx, isAuto, req, t) ==
  IF req # <<>>
  THEN LET r == TrimSpace(req[1]) IN
       IF r = <<>> THEN [err |-> ErrRemarkBlank, remark |-> <<>>]
       ELSE IF HasRemark(idx, r) THEN [err |-> ErrRemarkExists, remark |-> <<>>]
       ELSE [err |-> "", remark |-> r]
  ELSE LET remark == <<IF isAuto THEN "auto" ELSE "manual", FormatTime(t)>> IN
       IF ~HasRemark(idx, remark) THEN [err |-> "", remark |-> remark]
       ELSE [err |-> "", remark |-> candidateFrom(idx, remark, 1)]

\* ------------------------------------------------------------------ state
VARIABLES
  indexFile,   \* the file at IndexPath
  backups,     \* the files of BackupsDir
  target,      \* the file at TargetPath, owned by an external program
  nextId,      \* the next uuid
  scanMu,      \* Service.scanMu: "" (free) or the caller holding it
  scan,        \* the Scan call of each caller
  del,         \* a DeleteBackup call
  rst,         \* a RestoreBackup call
  tmp,         \* the temp file of the AtomicWriteJSON in progress
  st,          \* a call to the store with its write followed step by step
  last,        \* the call that returned last and what it returned
  calls,       \* the number of calls made to the service so far
  hist,        \* history: what a run remembers of its past
  upd,         \* the Store.update call of each caller, lock by lock
  storeMu,          \* Store.mu of each instance: "" (free) or the caller holding it
  flock,       \* the lock on the file at lockPath: "" or the caller holding it
  lin,         \* history: the index with every committed update applied in turn
  sch          \* the scheduler: ticker, stop channel, loop and the Stop call

\* The state of the callers of Store.update that are followed lock by lock.
lockVars == <<upd, storeMu, flock, lin>>

\* The state only some of the specifications move.
ext == <<lockVars, sch>>

vars ==
  <<indexFile, backups, target, nextId, scanMu, scan, del, rst, tmp, st, last, calls, hist,
    ext>>

\* The ids a caller may name: those handed out so far and one that never was
\* (ids the store does not know all behave alike).
Ids == 1..nextId

NoResult == [Created |-> FALSE, Reason |-> "", err |-> "", Item |-> ZeroItem]

ScanIdle ==
  [pc |-> "idle", isAuto |-> FALSE, req |-> <<>>, idx |-> ZeroIndex,
   fingerprint |-> <<>>, stat |-> 0, size |-> 0, contentHash |-> <<>>, data |-> <<>>,
   filename |-> <<>>, item |-> ZeroItem, pitem |-> ZeroItem, baseRemark |-> <<>>,
   counter |-> 0, err |-> ""]

DelIdle == [pc |-> "idle", id |-> 0, item |-> ZeroItem]

RstIdle ==
  [pc |-> "idle", id |-> 0, item |-> ZeroItem, data |-> <<>>,
   fingerprint |-> <<>>]

\* before: the index file when the update began; renamed: the temp file has
\* taken its place.
StIdle ==
  [pc |-> "idle", op |-> "", id |-> 0, idx |-> ZeroIndex, item |-> ZeroItem,
   before |-> NoFile, renamed |-> FALSE, err |-> ""]

NoLast == [op |-> "", res |-> NoResult]

\* What a call returns.
Returned(op, res) == last' = [op |-> op, res |-> res]

Failed(e) == [NoResult EXCEPT !.err = e]

\* inSync: "created" or "duplicate" while the target is as the last scan that
\* returned so left it and no delete or restore ran since; "restored" or
\* "stale" while it is as a restore left it, the restore's refresh of the
\* latest signature written or failed; "deleted" while it is as it was when
\* the entry holding its content was deleted; else "";
\* pre: the index file and the backup directory when the last scan began.
NoHist == [inSync |-> "", pre |-> [file |-> NoFile, dir |-> {}]]

\* Two instances of the service on one index path, and the goroutines of each
\* that call Store.update.
Insts == {"A", "B"}
Callers == {"a1", "a2", "b1"}
InstOf(c) == IF c = "b1" THEN "B" ELSE "A"

\* A call of Store.update: pc is "idle", "mu" (at s.mu.Lock), "flock" (in
\* WithFileLock, before the lock is held), "load", "write" or "unlock"; idx
\* is the index it loaded.
UpdIdle ==
  [pc |-> "idle", op |-> "", id |-> 0, item |-> ZeroItem, remark |-> <<>>,
   idx |-> ZeroIndex, err |-> ""]

\* ticker: s.ticker is set; ticking: the ticker still sends; tick: the ticks
\* waiting in ticker.C (a channel of capacity one); stopCh: "" (not made),
\* "open" or "closed"; ctx: the context of Start is cancelled; loop: where the
\* goroutine of Start is ("none", "select", "call": in s.Scan before it holds
\* scanMu, "scan", "exited"); stop: where the Stop call is ("idle", "wait": in
\* wg.Wait).  History: late, the waiting tick fired while a scan was in
\* progress; forLate, so did the tick the loop is serving.
\* defaultFileConfig: ScanInterval 60, and the value buildConfig puts in the
\* place of a scan_interval that is not positive.
DefaultScanInterval == 60

\* buildConfig: cfg.ScanInterval in seconds, from the scan_interval of the
\* file configuration.
buildConfig(scanInterval) ==
  IF scanInterval <= 0 THEN DefaultScanInterval ELSE scanInterval

\* LoadConfig: the configuration file (<<>>: no file, or no scan_interval in
\* it; <<n>>: "scan_interval": n) read over the defaults, then buildConfig.
LoadConfig(file) ==
  buildConfig(IF file = <<>> THEN DefaultScanInterval ELSE file[1])

\* The scan_interval values a configuration file may hold.
FileIntervals == {<<>>, <<0 - 1>>, <<0>>, <<2>>}

\* file: the scan_interval of the configuration file; interval: the
\* ScanInterval of the service's Config.
SchIdle ==
  [ticker |-> FALSE, ticking |-> FALSE, tick |-> 0, stopCh |-> "", ctx |-> FALSE,
   loop |-> "none", stop |-> "idle", late |-> FALSE, forLate |-> FALSE,
   file |-> <<>>, interval |-> LoadConfig(<<>>)]

\* The state of a new service but for its configuration.
InitService ==
  /\ indexFile = NoFile
  /\ backups = {}
  /\ target \in {NoTarget} \cup [exists : {TRUE}, content : {<<1>>}, stat : {1}]
  /\ nextId = 1
  /\ scanMu = ""
  /\ scan = [p \in Procs |-> ScanIdle]
  /\ del = DelIdle
  /\ rst = RstIdle
  /\ tmp = NoFile
  /\ st = StIdle
  /\ last = NoLast
  /\ calls = 0
  /\ hist = NoHist
  /\ upd = [c \in Callers |-> UpdIdle]
  /\ storeMu = [i \in Insts |-> ""]
  /\ flock = ""
  /\ lin = ensureDefaults(ZeroIndex)

\* A service with the default configuration.
Init == InitService /\ sch = SchIdle

\* A service built from the configuration LoadConfig returns for any file.
InitConfig ==
  /\ InitService
  /\ \E file \in FileIntervals :
       sch = [SchIdle EXCEPT !.file = file, !.interval = LoadConfig(file)]

\* The ScanInterval of a Config handed to NewService by its caller.
Intervals == {0 - 1, 0, 2}

\* A service built by NewService from any Config.
InitDirect ==
  /\ InitService
  /\ \E n \in Intervals : sch = [SchIdle EXCEPT !.interval = n]

\* ------------------------------------------------------ Service.Scan
\* A lock that never makes a caller wait.
ScanLockAbsent(mu) == TRUE

\* s.scanMu.Lock() returns when the mutex is free.
ScanLockFree(mu) == mu = ""

\* A return of Scan: the deferred Unlock runs and the caller has the result.
ScanFinish(p, res) ==
  /\ scan' = [scan EXCEPT ![p] = ScanIdle]
  /\ scanMu' = ""
  /\ Returned("Scan", res)

\* Lock and store.Snapshot().
ScanBegin(p, isAuto, req) ==
  /\ scan[p].pc = "idle"
  /\ ScanLockFree(scanMu)
  /\ LET l == loadIndexUnlocked(indexFile) IN
     IF l.err # ""
     THEN /\ Returned("Scan", Failed(l.err))
          /\ UNCHANGED <<scan, scanMu>>
     ELSE /\ scan' = [scan EXCEPT ![p] = [ScanIdle EXCEPT !.pc = "stat", !.isAuto = isAuto,
                                                          !.req = req, !.idx = l.idx]]
          /\ scanMu' = p
          /\ UNCHANGED last
  /\ UNCHANGED <<indexFile, backups, target, nextId, del, rst>>

\* ComputeFingerprint(target) and the comparison with LatestFingerprint.
ScanStat(p) ==
  /\ scan[p].pc = "stat"
  /\ LET f == ComputeFingerprint(target) IN
     IF f.err # ""
     THEN ScanFinish(p, [NoResult EXCEPT !.Reason = ReasonMissing])
     ELSE IF scan[p].idx.LatestFingerprint = f.Fingerprint
     THEN ScanFinish(p, [NoResult EXCEPT !.Reason = ReasonUnchanged])
     ELSE /\ scan' = [scan EXCEPT ![p].pc = "hash", ![p].fingerprint = f.Fingerprint,
                                  ![p].size = f.Size, ![p].stat = f.ModTime]
          /\ UNCHANGED <<scanMu, last>>
  /\ UNCHANGED <<indexFile, backups, target, nextId, del, rst>>

\* ComputeContentHash(target), findByContentHash, prepareRemark (clock read
\* t1), time.Now() (t2) and BuildBackupFilename.
ScanHash(p, t1, t2) ==
  /\ scan[p].pc = "hash"
  /\ LET h == ComputeContentHash(target)
         sc == scan[p]
     IN
     IF h.err # ""
     THEN /\ ScanFinish(p, Failed(h.err))
     ELSE IF findByContentHash(sc.idx.Items, h.hash) # <<>>
     THEN /\ scan' = [scan EXCEPT ![p].pc = "dedup", ![p].contentHash = h.hash,
                                  ![p].data = h.data]
          /\ UNCHANGED <<scanMu, last>>
     ELSE LET r == prepareRemark(sc.idx, sc.isAuto, sc.req, t1) IN
          IF r.err # ""
          THEN ScanFinish(p, Failed(r.err))
          ELSE /\ nextId <= MaxItems
               /\ scan' = [scan EXCEPT
                    ![p].pc = "alloc", ![p].contentHash = h.hash, ![p].data = h.data,
                    ![p].filename = BuildBackupFilename(t2, h.hash),
                    ![p].item = [ZeroItem EXCEPT !.CreatedAt = t2, !.Remark = r.remark]]
               /\ UNCHANGED <<scanMu, last>>
  /\ UNCHANGED <<indexFile, backups, target, nextId, del, rst>>

\* Duplicate content: store.UpdateLatestFingerprint(fingerprint).
ScanDedup(p, fail) ==
  /\ scan[p].pc = "dedup"
  /\ LET r == UpdateLatestFingerprint(indexFile, scan[p].fingerprint, fail) IN
     /\ indexFile' = r.file
     /\ ScanFinish(p, IF r.err # "" THEN Failed(r.err)
                      ELSE [NoResult EXCEPT !.Reason = ReasonDuplicate])
  /\ UNCHANGED <<backups, target, nextId, del, rst>>

\* EnsureUniqueFilename(BackupsDir, filename); its EnsureDir may fail.
ScanAlloc(p, fail) ==
  /\ scan[p].pc = "alloc"
  /\ IF fail THEN ScanFinish(p, Failed(ErrIO))
     ELSE /\ scan' = [scan EXCEPT
                       ![p].pc = "write",
                       ![p].filename = EnsureUniqueFilename(backups, scan[p].filename)]
          /\ UNCHANGED <<scanMu, last>>
  /\ UNCHANGED <<indexFile, backups, target, nextId, del, rst>>

\* A second read of the target for the bytes to store.
RereadData(sc, t) == t.content

\* The bytes Scan stores: data, as ComputeContentHash returned it.
BackupData(sc, t) == sc.data

\* WriteBackupFile, then the BackupItem with a fresh uuid.
ScanWrite(p, fail) ==
  /\ scan[p].pc = "write"
  /\ IF fail
     THEN /\ ScanFinish(p, Failed(ErrIO))
          /\ UNCHANGED <<backups, nextId>>
     ELSE LET sc == scan[p]
              item == [ID |-> nextId, Filename |-> sc.filename,
                       ContentHash |-> sc.contentHash,
                       FileFingerprint |-> sc.fingerprint, Size |-> sc.size,
                       CreatedAt |-> sc.item.CreatedAt, Remark |-> sc.item.Remark,
                       IsAuto |-> sc.isAuto, SourcePath |-> TargetPathName,
                       LastModified |-> sc.stat]
          IN /\ backups' = WriteBackupFile(backups, sc.filename, BackupData(sc, target))
             /\ nextId' = nextId + 1
             /\ scan' = [scan EXCEPT ![p].pc = "persist", ![p].item = item,
                                     ![p].pitem = item, ![p].baseRemark = item.Remark,
                                     ![p].counter = 1]
             /\ UNCHANGED <<scanMu, last>>
  /\ UNCHANGED <<indexFile, target, del, rst>>

\* A retry for manual scans too.
RetriesAlways(err, isAuto) == err = ErrRemarkExists

\* persistBackup goes round again: errors.Is(err, ErrRemarkExists) && isAuto.
Retries(err, isAuto) == err = ErrRemarkExists /\ isAuto

\* One round of the loop of persistBackup: store.AddBackup(item, fingerprint).
ScanPersist(p, fail) ==
  /\ scan[p].pc = "persist"
  /\ LET sc == scan[p]
         r == AddBackup(indexFile, sc.pitem, sc.fingerprint, fail)
     IN
     IF r.err = ""
     THEN /\ indexFile' = r.file
          /\ ScanFinish(p, [NoResult EXCEPT !.Created = TRUE, !.Item = sc.item])
     ELSE IF Retries(r.err, sc.isAuto)
     THEN /\ sc.counter <= MaxCounter
          /\ scan' = [scan EXCEPT
               ![p].pitem.Remark = Append(sc.baseRemark, ToString(sc.counter)),
               ![p].counter = sc.counter + 1]
          /\ UNCHANGED <<indexFile, scanMu, last>>
     ELSE /\ scan' = [scan EXCEPT ![p].pc = "cleanup", ![p].err = r.err]
          /\ UNCHANGED <<indexFile, scanMu, last>>
  /\ UNCHANGED <<backups, target, nextId, del, rst>>

\* A cleanup that removes the file of the first entry the scan saw.
CleanupFirstEntry(sc) ==
  IF sc.idx.Items # <<>> THEN sc.idx.Items[1].Filename ELSE sc.filename

\* The file the cleanup removes: filepath.Join(s.cfg.BackupsDir, filename).
CleanupPath(sc) == sc.filename

\* persistBackup failed: os.Remove of the file just written (whether it
\* succeeds is not looked at), then the error of persistBackup.
ScanCleanup(p, fail) ==
  /\ scan[p].pc = "cleanup"
  /\ backups' = IF fail THEN backups ELSE RemoveFile(backups, CleanupPath(scan[p]))
  /\ ScanFinish(p, Failed(scan[p].err))
  /\ UNCHANGED <<indexFile, target, nextId, del, rst>>

\* ------------------------------------------------ Service.DeleteBackup
\* store.DeleteBackup(id).
DeleteBegin(id, fail) ==
  /\ del.pc = "idle"
  /\ LET r == DeleteBackup(indexFile, id, fail) IN
     /\ indexFile' = r.file
     /\ IF r.err # ""
        THEN Returned("DeleteBackup", Failed(r.err)) /\ UNCHANGED del
        ELSE /\ del' = [DelIdle EXCEPT !.pc = "remove", !.id = id, !.item = r.item]
             /\ UNCHANGED last
  /\ UNCHANGED <<backups, target, nextId, scanMu, scan, rst>>

\* os.Remove of the backup file: a missing file is fine, another failure is
\* logged; DeleteBackup returns nil either way.
DeleteRemove(fail) ==
  /\ del.pc = "remove"
  /\ backups' = IF fail THEN backups ELSE RemoveFile(backups, del.item.Filename)
  /\ del' = DelIdle
  /\ Returned("DeleteBackup", NoResult)
  /\ UNCHANGED <<indexFile, target, nextId, scanMu, scan, rst>>

\* ----------------------------------------------- Service.RestoreBackup
\* store.FindByID(id).
RestoreFind(id) ==
  /\ rst.pc = "idle"
  /\ LET r == FindByID(indexFile, id) IN
     IF r.err # ""
     THEN Returned("RestoreBackup", Failed(r.err)) /\ UNCHANGED rst
     ELSE /\ rst' = [RstIdle EXCEPT !.pc = "read", !.id = id, !.item = r.item]
          /\ UNCHANGED last
  /\ UNCHANGED <<indexFile, backups, target, nextId, scanMu, scan, del>>

\* A read that takes a missing file for an empty one.
ReadBackupEmpty(dir, filename) ==
  [err |-> "", data |-> IF FileExists(dir, filename) THEN ReadFile(dir, filename) ELSE <<>>]

\* os.ReadFile(filepath.Join(BackupsDir, filename)).
ReadBackup(dir, filename) ==
  IF FileExists(dir, filename) THEN [err |-> "", data |-> ReadFile(dir, filename)]
  ELSE [err |-> ErrIO, data |-> <<>>]

\* os.ReadFile of the backup file.
RestoreRead ==
  /\ rst.pc = "read"
  /\ LET r == ReadBackup(backups, rst.item.Filename) IN
     IF r.err = ""
     THEN /\ rst' = [rst EXCEPT !.pc = "write", !.data = r.data]
          /\ UNCHANGED last
     ELSE rst' = RstIdle /\ Returned("RestoreBackup", Failed(r.err))
  /\ UNCHANGED <<indexFile, backups, target, nextId, scanMu, scan, del>>

\* util.AtomicWriteFile(TargetPath, data): a new file (another inode, so
\* another stat identity than the file it replaces) is renamed over the target.
RestoreWrite(ino, fail) ==
  /\ rst.pc = "write"
  /\ IF fail
     THEN /\ rst' = RstIdle
          /\ Returned("RestoreBackup", Failed(ErrIO))
          /\ UNCHANGED target
     ELSE /\ ino \in Stats
          /\ target.exists => ino # target.stat
          /\ target' = [exists |-> TRUE, content |-> rst.data, stat |-> ino]
          /\ rst' = [rst EXCEPT !.pc = "stat"]
          /\ UNCHANGED last
  /\ UNCHANGED <<indexFile, backups, nextId, scanMu, scan, del>>

\* ComputeFingerprint(TargetPath) after the write; an error skips the refresh.
RestoreStat ==
  /\ rst.pc = "stat"
  /\ LET f == ComputeFingerprint(target) IN
     IF f.err = ""
     THEN /\ rst' = [rst EXCEPT !.pc = "refresh", !.fingerprint = f.Fingerprint]
          /\ UNCHANGED last
     ELSE rst' = RstIdle /\ Returned("RestoreBackup", NoResult)
  /\ UNCHANGED <<indexFile, backups, target, nextId, scanMu, scan, del>>

\* store.UpdateLatestFingerprint(res.Fingerprint); its error is only logged.
RestoreRefresh(fail) ==
  /\ rst.pc = "refresh"
  /\ indexFile' = UpdateLatestFingerprint(indexFile, rst.fingerprint, fail).file
  /\ rst' = RstIdle
  /\ Returned("RestoreBackup", NoResult)
  /\ UNCHANGED <<backups, target, nextId, scanMu, scan, del>>

\* ------------------------------------------------ Service.UpdateRemark
ServiceUpdateRemark(id, remark, fail) ==
  /\ LET r == UpdateRemark(indexFile, id, TrimSpace(remark), fail) IN
     /\ indexFile' = r.file
     /\ Returned("UpdateRemark", IF r.err # "" THEN Failed(r.err)
                                 ELSE [NoResult EXCEPT !.Item = r.item])
  /\ UNCHANGED <<backups, target, nextId, scanMu, scan, del, rst>>

\* ------------------------------------ the external owner of the target
EnvWrite(c, ino) ==
  /\ target' = [exists |-> TRUE, content |-> c, stat |-> ino]
  /\ target' # target
  /\ UNCHANGED <<indexFile, backups, nextId, scanMu, scan, del, rst, last>>

EnvRemove ==
  /\ target.exists
  /\ target' = NoTarget
  /\ UNCHANGED <<indexFile, backups, nextId, scanMu, scan, del, rst, last>>

\* A backup file is removed from the backup directory by hand.
EnvRemoveBackup ==
  /\ \E e \in backups : backups' = backups \ {e}
  /\ UNCHANGED <<indexFile, target, nextId, scanMu, scan, del, rst, last>>

\* ------------------------------------- Store.update, step by step
\* The part of the state the service owns.
svcVars == <<backups, target, scanMu, scan, del, rst>>

\* Store.update up to the write: the load, the mutator (m is its outcome on
\* the loaded index l), ensureDefaults, then EnsureDir and MarshalIndent of
\* AtomicWriteJSON.
StoreStart(op, id, l, m, fail) ==
  /\ st.pc \in {"idle", "crashed"}
  /\ IF l.err # ""
     THEN Returned(op, Failed(l.err)) /\ st' = StIdle
     ELSE LET s == stage(m) IN
          IF s.err # "" THEN Returned(op, Failed(s.err)) /\ st' = StIdle
          ELSE IF fail THEN Returned(op, Failed(ErrStorage)) /\ st' = StIdle
          ELSE /\ st' = [StIdle EXCEPT !.pc = "create", !.op = op, !.id = id,
                                       !.idx = s.idx, !.item = m.item,
                                       !.before = indexFile]
               /\ UNCHANGED last
  /\ UNCHANGED <<indexFile, tmp, svcVars>>

StoreAddBackup(item, fail) ==
  /\ nextId <= MaxItems
  /\ nextId' = nextId + 1
  /\ LET l == loadIndexUnlocked(indexFile)
         it == [item EXCEPT !.ID = nextId, !.ContentHash = Sha256Hex(<<nextId>>),
                            !.FileFingerprint = <<1, nextId>>]
         m == addBackupMutator(l.idx, it, it.FileFingerprint)
     IN StoreStart("AddBackup", it.ID, l,
                   [err |-> m.err, idx |-> m.idx, item |-> ZeroItem], fail)

StoreUpdateLatestFingerprint(fingerprint, fail) ==
  /\ LET l == loadIndexUnlocked(indexFile)
         m == updateLatestFingerprintMutator(l.idx, fingerprint)
     IN StoreStart("UpdateLatestFingerprint", 0, l,
                   [err |-> m.err, idx |-> m.idx, item |-> ZeroItem], fail)
  /\ UNCHANGED nextId

StoreUpdateRemark(id, newRemark, fail) ==
  /\ LET l == loadIndexUnlocked(indexFile) IN
     StoreStart("UpdateRemark", id, l, updateRemarkMutator(l.idx, id, newRemark), fail)
  /\ UNCHANGED nextId

StoreDeleteBackup(id, fail) ==
  /\ LET l == loadIndexUnlocked(indexFile) IN
     StoreStart("DeleteBackup", id, l, deleteBackupMutator(l.idx, id), fail)
  /\ UNCHANGED nextId

\* Store.ListBackups under Store.mu: the caller has the list, nothing is
\* written.
StoreListBackups ==
  /\ st.pc \in {"idle", "crashed"}
  /\ \E r \in ListBackups(indexFile) :
       last' = [op |-> "ListBackups", res |-> Failed(r.err), items |-> r.items]
  /\ UNCHANGED <<indexFile, nextId, tmp, st, svcVars>>

\* A step of AtomicWriteJSON failed: the deferred function runs next.
StoreFail == st' = [st EXCEPT !.pc = "cleanup", !.err = ErrStorage]

\* os.CreateTemp: a failure returns before the defer is set up.
CreateTemp(fail) ==
  /\ st.pc = "create"
  /\ IF fail
     THEN /\ Returned(st.op, Failed(ErrStorage))
          /\ st' = StIdle
          /\ UNCHANGED tmp
     ELSE /\ tmp' = [exists |-> TRUE, data |-> <<>>, synced |-> 0]
          /\ st' = [st EXCEPT !.pc = "write"]
          /\ UNCHANGED last
  /\ UNCHANGED <<indexFile, nextId, svcVars>>

\* tmp.Write(payload): n chunks reach the file; fewer than all is an error.
WriteTemp(n) ==
  /\ st.pc = "write"
  /\ LET payload == Marshal(st.idx) IN
     /\ n \in 0..Len(payload)
     /\ tmp' = [tmp EXCEPT !.data = SubSeq(payload, 1, n)]
     /\ IF n = Len(payload) THEN st' = [st EXCEPT !.pc = "sync"] ELSE StoreFail
  /\ UNCHANGED <<indexFile, nextId, last, svcVars>>

\* A sync that makes nothing durable.
NoSync(f) == f

\* What tmp.Sync makes of a file: all its bytes are durable.
SyncFile(f) == [f EXCEPT !.synced = Len(f.data)]

\* tmp.Sync().
SyncTemp(fail) ==
  /\ st.pc = "sync"
  /\ IF fail THEN StoreFail /\ UNCHANGED tmp
     ELSE tmp' = SyncFile(tmp) /\ st' = [st EXCEPT !.pc = "close"]
  /\ UNCHANGED <<indexFile, nextId, last, svcVars>>

\* tmp.Close().
CloseTemp(fail) ==
  /\ st.pc = "close"
  /\ IF fail THEN StoreFail ELSE st' = [st EXCEPT !.pc = "rename"]
  /\ UNCHANGED <<indexFile, tmp, nextId, last, svcVars>>

\* os.Rename(tmp.Name(), path): the temp file takes the place of the index.
RenameTemp(fail) ==
  /\ st.pc = "rename"
  /\ IF fail THEN StoreFail /\ UNCHANGED <<indexFile, tmp>>
     ELSE /\ indexFile' = tmp
          /\ tmp' = NoFile
          /\ st' = [st EXCEPT !.pc = "cleanup", !.renamed = TRUE]
  /\ UNCHANGED <<nextId, last, svcVars>>

\* The deferred tmp.Close and os.Remove(tmp.Name()), then update returns.
StoreReturn ==
  /\ st.pc = "cleanup"
  /\ tmp' = NoFile
  /\ Returned(st.op, IF st.err # "" THEN Failed(st.err)
                     ELSE [NoResult EXCEPT !.Item = st.item])
  /\ st' = StIdle
  /\ UNCHANGED <<indexFile, nextId, svcVars>>

\* What a power loss leaves of a file: its durable bytes and k more.
PowerLoss(f, k) ==
  IF f.exists /\ f.synced + k < Len(f.data)
  THEN [f EXCEPT !.data = SubSeq(f.data, 1, f.synced + k)]
  ELSE f

\* The process dies during an update, with the power (k of the bytes not yet
\* durable survive) or alone (all do).  A rename not yet durable may be lost
\* with the power.  The temp file stays behind under its random name.
Crash(k, lost) ==
  /\ st.pc \notin {"idle", "crashed"}
  /\ k \in 0..(Len(indexFile.data) - indexFile.synced)
  /\ lost => st.renamed
  /\ indexFile' = IF lost THEN st.before ELSE PowerLoss(indexFile, k)
  /\ tmp' = NoFile
  /\ st' = [StIdle EXCEPT !.pc = "crashed", !.op = st.op, !.idx = st.idx,
                          !.before = st.before]
  /\ UNCHANGED <<nextId, last, svcVars>>

\* ------------------------------------ Service.Start / Service.Stop
\* Start: with ScanInterval <= 0 it returns at once, and a second Start, or
\* one after the context ended the loop, finds s.ticker set and returns.
Start ==
  /\ sch.interval > 0
  /\ ~sch.ticker
  /\ sch.stop = "idle"
  /\ sch' = [sch EXCEPT !.ticker = TRUE, !.ticking = TRUE, !.tick = 0, !.stopCh = "open",
                        !.loop = "select", !.late = FALSE, !.forLate = FALSE]

\* The ticker fires: the tick waits in ticker.C, or is dropped if one waits.
Tick ==
  /\ sch.ticking
  /\ sch.tick = 0
  /\ sch' = [sch EXCEPT !.tick = 1, !.late = (scanMu # "")]

\* case <-s.ticker.C: the loop goes on to s.Scan(true, nil).
LoopTick ==
  /\ sch.loop = "select"
  /\ sch.tick = 1
  /\ sch' = [sch EXCEPT !.loop = "call", !.tick = 0, !.forLate = sch.late, !.late = FALSE]

\* case <-ctx.Done() / case <-s.stopCh: the goroutine returns (wg.Done).
LoopExit ==
  /\ sch.loop = "select"
  /\ sch.ctx \/ sch.stopCh = "closed"
  /\ sch' = [sch EXCEPT !.loop = "exited"]

\* Where the loop is after a step of its scan.
LoopAfter(pc) ==
  sch' = IF pc = "idle" THEN [sch EXCEPT !.loop = "select", !.forLate = FALSE]
         ELSE [sch EXCEPT !.loop = "scan"]

\* The context given to Start is cancelled (SIGINT, SIGTERM).
CtxCancel ==
  /\ ~sch.ctx
  /\ sch' = [sch EXCEPT !.ctx = TRUE]

\* Stop up to wg.Wait: s.ticker.Stop() and close(s.stopCh).
StopBegin ==
  /\ sch.stop = "idle"
  /\ sch.ticker
  /\ sch' = [sch EXCEPT !.ticking = FALSE, !.stopCh = "closed", !.stop = "wait"]

\* A wait that returns at once.
WaitNever(loop) == TRUE

\* s.wg.Wait() returns when the goroutine of Start has returned.
WaitDone(loop) == loop = "exited"

\* The end of Stop: wg.Wait returns, s.ticker = nil.
StopReturn ==
  /\ sch.stop = "wait"
  /\ WaitDone(sch.loop)
  /\ sch' = [sch EXCEPT !.stop = "idle", !.ticker = FALSE]

\* ----------------------- Store.update, lock by lock (WithFileLock)
\* The mutator of a call on the index idx.
MutatorOf(u, idx) ==
  IF u.op = "AddBackup"
  THEN LET m == addBackupMutator(idx, u.item, u.item.FileFingerprint) IN
       [err |-> m.err, idx |-> m.idx]
  ELSE LET m == updateRemarkMutator(idx, u.id, u.remark) IN
       [err |-> m.err, idx |-> m.idx]

\* A goroutine calls Store.AddBackup.
UpdCallAdd(c, remark) ==
  /\ upd[c].pc = "idle"
  /\ nextId <= MaxItems
  /\ nextId' = nextId + 1
  /\ upd' = [upd EXCEPT ![c] =
       [UpdIdle EXCEPT !.pc = "mu", !.op = "AddBackup", !.id = nextId,
                       !.item = [ZeroItem EXCEPT !.ID = nextId, !.Remark = remark,
                                                 !.FileFingerprint = <<1, nextId>>,
                                                 !.CreatedAt = 1]]]
  /\ UNCHANGED <<indexFile, storeMu, flock, lin, last>>

\* A goroutine calls Store.UpdateRemark.
UpdCallRemark(c, id, newRemark) ==
  /\ upd[c].pc = "idle"
  /\ upd' = [upd EXCEPT ![c] =
       [UpdIdle EXCEPT !.pc = "mu", !.op = "UpdateRemark", !.id = id,
                       !.remark = newRemark]]
  /\ UNCHANGED <<indexFile, nextId, storeMu, flock, lin, last>>

\* s.mu.Lock(): the mutex of the caller's own instance.
MuLock(c) ==
  /\ upd[c].pc = "mu"
  /\ storeMu[InstOf(c)] = ""
  /\ storeMu' = [storeMu EXCEPT ![InstOf(c)] = c]
  /\ upd' = [upd EXCEPT ![c].pc = "flock"]
  /\ UNCHANGED <<indexFile, nextId, flock, lin, last>>

\* A file lock that never makes a caller wait.
FileLockAbsent(holder) == TRUE

\* lockFile(f) (LockFileEx, exclusive, blocking) returns when no other handle
\* holds the lock.
FileLockFree(holder) == holder = ""

\* util.WithFileLock up to fn: EnsureDir, OpenFile and lockFile, each of
\* which may fail and end the update with its error.
LockFile(c, fail) ==
  /\ upd[c].pc = "flock"
  /\ IF fail
     THEN /\ upd' = [upd EXCEPT ![c] = UpdIdle]
          /\ storeMu' = [storeMu EXCEPT ![InstOf(c)] = ""]
          /\ Returned(upd[c].op, Failed(ErrIO))
          /\ UNCHANGED flock
     ELSE /\ FileLockFree(flock)
          /\ flock' = c
          /\ upd' = [upd EXCEPT ![c].pc = "load"]
          /\ UNCHANGED <<storeMu, last>>
  /\ UNCHANGED <<indexFile, nextId, lin>>

\* s.loadIndexUnlocked().
UpdLoad(c) ==
  /\ upd[c].pc = "load"
  /\ LET l == loadIndexUnlocked(indexFile) IN
     upd' = [upd EXCEPT ![c].pc = IF l.err # "" THEN "unlock" ELSE "write",
                        ![c].idx = l.idx, ![c].err = l.err]
  /\ UNCHANGED <<indexFile, nextId, storeMu, flock, lin, last>>

\* The mutator on the loaded index, ensureDefaults and AtomicWriteJSON.
UpdWrite(c, fail) ==
  /\ upd[c].pc = "write"
  /\ LET r == commit(indexFile, MutatorOf(upd[c], upd[c].idx), fail) IN
     /\ indexFile' = r.file
     /\ upd' = [upd EXCEPT ![c].pc = "unlock", ![c].err = r.err]
     /\ lin' = IF r.err # "" THEN lin ELSE stage(MutatorOf(upd[c], lin)).idx
  /\ UNCHANGED <<nextId, storeMu, flock, last>>

\* The deferred unlockFile, f.Close and s.mu.Unlock, then update returns.
UpdUnlock(c) ==
  /\ upd[c].pc = "unlock"
  /\ flock' = IF flock = c THEN "" ELSE flock
  /\ storeMu' = [storeMu EXCEPT ![InstOf(c)] = ""]
  /\ Returned(upd[c].op, IF upd[c].err # "" THEN Failed(upd[c].err) ELSE NoResult)
  /\ upd' = [upd EXCEPT ![c] = UpdIdle]
  /\ UNCHANGED <<indexFile, nextId, lin>>

\* ------------------------------------------------------- specifications
Times == 1..MaxTime

\* A call is made while the run's budget of calls lasts.
Called(budget) == calls < budget /\ calls' = calls + 1

\* Every interleaving of the calls of one service instance, with storage
\* failures.
Next ==
  \/ \E p \in Procs : \E a \in ScanArgs(p) :
       ScanBegin(p, a.isAuto, a.req) /\ Called(MaxCalls) /\ UNCHANGED <<ext, tmp, st, hist>>
  \/ \E p \in Procs : ScanStat(p) /\ UNCHANGED <<ext, tmp, st, calls, hist>>
  \/ \E p \in Procs, t1 \in Times, t2 \in Times :
       ScanHash(p, t1, t2) /\ UNCHANGED <<ext, tmp, st, calls, hist>>
  \/ \E p \in Procs, fail \in BOOLEAN : ScanDedup(p, fail) /\ UNCHANGED <<ext, tmp, st, calls, hist>>
  \/ \E p \in Procs, fail \in BOOLEAN : ScanAlloc(p, fail) /\ UNCHANGED <<ext, tmp, st, calls, hist>>
  \/ \E p \in Procs, fail \in BOOLEAN : ScanWrite(p, fail) /\ UNCHANGED <<ext, tmp, st, calls, hist>>
  \/ \E p \in Procs, fail \in BOOLEAN : ScanPersist(p, fail) /\ UNCHANGED <<ext, tmp, st, calls, hist>>
  \/ \E p \in Procs, fail \in BOOLEAN :
       ScanCleanup(p, fail) /\ UNCHANGED <<ext, tmp, st, calls, hist>>
  \/ \E id \in Ids, fail \in BOOLEAN :
       DeleteBegin(id, fail) /\ Called(MaxCalls) /\ UNCHANGED <<ext, tmp, st, hist>>
  \/ \E fail \in BOOLEAN : DeleteRemove(fail) /\ UNCHANGED <<ext, tmp, st, calls, hist>>
  \/ \E id \in Ids : RestoreFind(id) /\ Called(MaxCalls) /\ UNCHANGED <<ext, tmp, st, hist>>
  \/ RestoreRead /\ UNCHANGED <<ext, tmp, st, calls, hist>>
  \/ \E ino \in Stats, fail \in BOOLEAN : RestoreWrite(ino, fail) /\ UNCHANGED <<ext, tmp, st, calls, hist>>
  \/ RestoreStat /\ UNCHANGED <<ext, tmp, st, calls, hist>>
  \/ \E fail \in BOOLEAN : RestoreRefresh(fail) /\ UNCHANGED <<ext, tmp, st, calls, hist>>
  \/ \E id \in Ids, remark \in NewRemarks, fail \in BOOLEAN :
       ServiceUpdateRemark(id, remark, fail) /\ Called(MaxCalls) /\ UNCHANGED <<ext, tmp, st, hist>>
  \/ \E c \in Contents, ino \in Stats : EnvWrite(c, ino) /\ UNCHANGED <<ext, tmp, st, calls, hist>>
  \/ EnvRemove /\ UNCHANGED <<ext, tmp, st, calls, hist>>

Spec == Init /\ [][Next]_vars

\* No call is in progress.
Quiet ==
  /\ \A p \in Procs : scan[p].pc = "idle"
  /\ del.pc = "idle"
  /\ rst.pc = "idle"

\* The history a step of Scan leaves: a scan that returns created or
\* duplicate content leaves the index in step with the target.
ScanHist(p) ==
  hist' = IF scan'[p].pc # "idle" THEN hist
          ELSE IF last'.res.Created THEN [NoHist EXCEPT !.inSync = "created"]
          ELSE IF last'.res.Reason = ReasonDuplicate
          THEN [NoHist EXCEPT !.inSync = "duplicate"]
          ELSE [NoHist EXCEPT !.inSync = hist.inSync]

Unsynced == hist' = [hist EXCEPT !.inSync = ""]

\* The history a restore leaves when it returns after its refresh of the
\* latest signature: "restored" if the refresh was written, "stale" if not.
Refreshed(how) == hist' = [hist EXCEPT !.inSync = how]

\* The history a DeleteBackup leaves when it has taken its entry out of the
\* index: "deleted" if the entry held the content the target has.
Deleted ==
  hist' = [hist EXCEPT !.inSync =
             IF /\ del'.pc = "remove"
                /\ target.exists
                /\ del'.item.ContentHash = Sha256Hex(target.content)
             THEN "deleted" ELSE ""]

\* The runs where each call returns before the next begins, the target is
\* written only between calls and no file operation fails.
NextSeq ==
  \/ \E p \in Procs : \E a \in ScanArgs(p) :
       /\ Quiet
       /\ ScanBegin(p, a.isAuto, a.req)
       /\ Called(MaxSeqCalls)
       /\ hist' = IF scan'[p].pc = "idle" THEN hist
                  ELSE [hist EXCEPT !.pre = [file |-> indexFile, dir |-> backups]]
       /\ UNCHANGED <<ext, tmp, st>>
  \/ \E p \in Procs : ScanStat(p) /\ ScanHist(p) /\ UNCHANGED <<ext, tmp, st, calls>>
  \/ \E p \in Procs, t1 \in Times, t2 \in Times :
       ScanHash(p, t1, t2) /\ ScanHist(p) /\ UNCHANGED <<ext, tmp, st, calls>>
  \/ \E p \in Procs : ScanDedup(p, FALSE) /\ ScanHist(p) /\ UNCHANGED <<ext, tmp, st, calls>>
  \/ \E p \in Procs : ScanAlloc(p, FALSE) /\ ScanHist(p) /\ UNCHANGED <<ext, tmp, st, calls>>
  \/ \E p \in Procs : ScanWrite(p, FALSE) /\ ScanHist(p) /\ UNCHANGED <<ext, tmp, st, calls>>
  \/ \E p \in Procs : ScanPersist(p, FALSE) /\ ScanHist(p) /\ UNCHANGED <<ext, tmp, st, calls>>
  \/ \E id \in Ids :
       Quiet /\ DeleteBegin(id, FALSE) /\ Called(MaxSeqCalls) /\ Deleted /\ UNCHANGED <<ext, tmp, st>>
  \/ DeleteRemove(FALSE) /\ UNCHANGED <<ext, tmp, st, calls, hist>>
  \/ \E id \in Ids : Quiet /\ RestoreFind(id) /\ Called(MaxSeqCalls) /\ Unsynced /\ UNCHANGED <<ext, tmp, st>>
  \/ RestoreRead /\ UNCHANGED <<ext, tmp, st, calls, hist>>
  \/ \E ino \in Stats : RestoreWrite(ino, FALSE) /\ UNCHANGED <<ext, tmp, st, calls, hist>>
  \/ RestoreStat /\ UNCHANGED <<ext, tmp, st, calls, hist>>
  \/ RestoreRefresh(FALSE) /\ Refreshed("restored") /\ UNCHANGED <<ext, tmp, st, calls>>
  \/ \E id \in Ids, remark \in NewRemarks :
       /\ Quiet
       /\ ServiceUpdateRemark(id, remark, FALSE)
       /\ Called(MaxSeqCalls)
       /\ UNCHANGED <<ext, tmp, st, hist>>
  \/ \E c \in Contents, ino \in Stats :
       Quiet /\ EnvWrite(c, ino) /\ Unsynced /\ UNCHANGED <<ext, tmp, st, calls>>
  \/ Quiet /\ EnvRemove /\ Unsynced /\ UNCHANGED <<ext, tmp, st, calls>>

SpecSeq == Init /\ [][NextSeq]_vars

\* The same runs where, besides, a restore's write of the target and its
\* refresh of the latest signature may fail and backup files may disappear
\* from the directory between calls.
NextRestore ==
  \/ NextSeq
  \/ \E ino \in Stats : RestoreWrite(ino, TRUE) /\ UNCHANGED <<ext, tmp, st, calls, hist>>
  \/ RestoreRefresh(TRUE) /\ Refreshed("stale") /\ UNCHANGED <<ext, tmp, st, calls>>
  \/ Quiet /\ EnvRemoveBackup /\ UNCHANGED <<ext, tmp, st, calls, hist>>

SpecRestore == Init /\ [][NextRestore]_vars

\* The same runs where, besides, a restore and a delete run together, each
\* beginning while the other is in flight and no scan is, and the restore's
\* write, its refresh and the delete's removal of the file may fail.
NextUndo ==
  \/ NextSeq
  \/ \E id \in Ids :
       /\ \A p \in Procs : scan[p].pc = "idle"
       /\ del.pc # "idle"
       /\ RestoreFind(id) /\ Called(MaxSeqCalls) /\ Unsynced /\ UNCHANGED <<ext, tmp, st>>
  \/ \E id \in Ids :
       /\ \A p \in Procs : scan[p].pc = "idle"
       /\ rst.pc # "idle"
       /\ DeleteBegin(id, FALSE) /\ Called(MaxSeqCalls) /\ Unsynced /\ UNCHANGED <<ext, tmp, st>>
  \/ \E ino \in Stats : RestoreWrite(ino, TRUE) /\ UNCHANGED <<ext, tmp, st, calls, hist>>
  \/ RestoreRefresh(TRUE) /\ Refreshed("stale") /\ UNCHANGED <<ext, tmp, st, calls>>
  \/ DeleteRemove(TRUE) /\ UNCHANGED <<ext, tmp, st, calls, hist>>

SpecUndo == Init /\ [][NextUndo]_vars

\* The items handed to AddBackup (each with a fresh id, its own content
\* digest and fingerprint, which Service.Scan also passes as the latest
\* one) and the arguments of the other calls.
StoreRemarks == {<<>>, <<"x">>, <<"y">>}
ItemRemarks == {<<>>, <<"x">>}
StoreFingerprints == {<<2, 1>>}
Stamps == {1, 2}
StoreItems ==
  {[ZeroItem EXCEPT !.Remark = r, !.CreatedAt = t, !.SourcePath = TargetPathName] :
     r \in ItemRemarks, t \in Stamps}

\* The store alone: its calls one at a time (Store.mu), each write step able
\* to fail, the process able to die at any step.
NextStore ==
  \/ \E item \in StoreItems, fail \in BOOLEAN :
       StoreAddBackup(item, fail) /\ Called(MaxStoreCalls) /\ UNCHANGED <<ext, hist>>
  \/ \E f \in StoreFingerprints, fail \in BOOLEAN :
       StoreUpdateLatestFingerprint(f, fail) /\ Called(MaxStoreCalls) /\ UNCHANGED <<ext, hist>>
  \/ \E id \in Ids, r \in StoreRemarks, fail \in BOOLEAN :
       StoreUpdateRemark(id, r, fail) /\ Called(MaxStoreCalls) /\ UNCHANGED <<ext, hist>>
  \/ \E id \in Ids, fail \in BOOLEAN :
       StoreDeleteBackup(id, fail) /\ Called(MaxStoreCalls) /\ UNCHANGED <<ext, hist>>
  \/ \E fail \in BOOLEAN : CreateTemp(fail) /\ UNCHANGED <<ext, calls, hist>>
  \/ \E n \in {0, MarshalLen - 1, MarshalLen} : WriteTemp(n) /\ UNCHANGED <<ext, calls, hist>>
  \/ \E fail \in BOOLEAN : SyncTemp(fail) /\ UNCHANGED <<ext, calls, hist>>
  \/ \E fail \in BOOLEAN : CloseTemp(fail) /\ UNCHANGED <<ext, calls, hist>>
  \/ \E fail \in BOOLEAN : RenameTemp(fail) /\ UNCHANGED <<ext, calls, hist>>
  \/ StoreReturn /\ UNCHANGED <<ext, calls, hist>>
  \/ \E k \in 0..MarshalLen, lost \in BOOLEAN : Crash(k, lost) /\ UNCHANGED <<ext, calls, hist>>

SpecStore == Init /\ [][NextStore]_vars

\* The store alone, its entries listed between the other calls.
NextList ==
  \/ NextStore
  \/ StoreListBackups /\ UNCHANGED <<ext, calls, hist>>

SpecList == Init /\ [][NextList]_vars

\* The rest of the state, which the store's callers leave alone.
restVars == <<backups, target, scanMu, scan, del, rst, tmp, st, hist, sch>>

\* Goroutines of two instances calling Store.AddBackup and
\* Store.UpdateRemark on one index path, every lock step interleaved, the
\* file lock and the write able to fail.
NextLock ==
  \/ \E c \in Callers, r \in ItemRemarks :
       UpdCallAdd(c, r) /\ Called(MaxLockCalls) /\ UNCHANGED restVars
  \/ \E c \in Callers, id \in Ids, r \in StoreRemarks :
       UpdCallRemark(c, id, r) /\ Called(MaxLockCalls) /\ UNCHANGED restVars
  \/ \E c \in Callers : MuLock(c) /\ UNCHANGED <<calls, restVars>>
  \/ \E c \in Callers, fail \in BOOLEAN : LockFile(c, fail) /\ UNCHANGED <<calls, restVars>>
  \/ \E c \in Callers : UpdLoad(c) /\ UNCHANGED <<calls, restVars>>
  \/ \E c \in Callers, fail \in BOOLEAN : UpdWrite(c, fail) /\ UNCHANGED <<calls, restVars>>
  \/ \E c \in Callers : UpdUnlock(c) /\ UNCHANGED <<calls, restVars>>

SpecLock == Init /\ [][NextLock]_vars

\* The labels another writer may give an entry while a scan runs: those a
\* scan takes or makes up (supplied, "manual-<time>", "auto-<time>" and the
\* first renamed one).
RaceRemarks ==
  {<<"x">>, <<"manual", FormatTime(1)>>, <<"auto", FormatTime(1)>>,
   <<"auto", FormatTime(1), "1">>}

\* Scan as any goroutine may call it: manual with any label, or automatic.
RaceArgs == ScanArgs(Api) \cup ScanArgs(Sched)

\* Two goroutines calling Scan in any way while labels are updated (any
\* number of times) and the target is rewritten; the commit of a scan and the
\* removal of its file may fail, no other file operation does.
NextRace ==
  \/ \E p \in Procs, a \in RaceArgs :
       ScanBegin(p, a.isAuto, a.req) /\ Called(MaxRaceCalls) /\ UNCHANGED <<ext, tmp, st, hist>>
  \/ \E p \in Procs : ScanStat(p) /\ UNCHANGED <<ext, tmp, st, calls, hist>>
  \/ \E p \in Procs, t1 \in Times, t2 \in Times :
       ScanHash(p, t1, t2) /\ UNCHANGED <<ext, tmp, st, calls, hist>>
  \/ \E p \in Procs : ScanDedup(p, FALSE) /\ UNCHANGED <<ext, tmp, st, calls, hist>>
  \/ \E p \in Procs : ScanAlloc(p, FALSE) /\ UNCHANGED <<ext, tmp, st, calls, hist>>
  \/ \E p \in Procs : ScanWrite(p, FALSE) /\ UNCHANGED <<ext, tmp, st, calls, hist>>
  \/ \E p \in Procs, fail \in BOOLEAN :
       ScanPersist(p, fail) /\ UNCHANGED <<ext, tmp, st, calls, hist>>
  \/ \E p \in Procs, fail \in BOOLEAN :
       ScanCleanup(p, fail) /\ UNCHANGED <<ext, tmp, st, calls, hist>>
  \/ \E id \in Ids, remark \in RaceRemarks :
       ServiceUpdateRemark(id, remark, FALSE) /\ UNCHANGED <<ext, tmp, st, calls, hist>>
  \/ \E c \in Contents, ino \in Stats :
       EnvWrite(c, ino) /\ UNCHANGED <<ext, tmp, st, calls, hist>>

SpecRace == Init /\ [][NextRace]_vars

\* The scheduler after a step of the scan of p: the loop's own scan moves the
\* loop, a manual scan leaves it alone.
SchAfter(p) == IF p = Sched THEN LoopAfter(scan'[Sched].pc) ELSE UNCHANGED sch

\* What a step of the scheduler leaves alone.
schRest ==
  <<indexFile, tmp, st, backups, target, nextId, scanMu, scan, del, rst, last, hist, lockVars>>

\* A step of a scan that has begun, no file operation failing.
SchedScanStep(p) ==
  /\ \/ ScanStat(p)
     \/ \E t1 \in Times, t2 \in Times : ScanHash(p, t1, t2)
     \/ ScanDedup(p, FALSE)
     \/ ScanAlloc(p, FALSE)
     \/ ScanWrite(p, FALSE)
     \/ ScanPersist(p, FALSE)
  /\ SchAfter(p)
  /\ UNCHANGED <<lockVars, tmp, st, calls, hist>>

\* The scheduler of one service: Start, ticks, the loop calling Scan(true,
\* nil), cancellation of the context and Stop, while the API makes manual
\* scans and the target is rewritten; no file operation fails.
NextSched ==
  \/ Start /\ UNCHANGED <<schRest, calls>>
  \/ Tick /\ Called(MaxSchedCalls) /\ UNCHANGED schRest
  \/ LoopTick /\ UNCHANGED <<schRest, calls>>
  \/ LoopExit /\ UNCHANGED <<schRest, calls>>
  \/ CtxCancel /\ UNCHANGED <<schRest, calls>>
  \/ StopBegin /\ UNCHANGED <<schRest, calls>>
  \/ StopReturn /\ UNCHANGED <<schRest, calls>>
  \/ /\ sch.loop = "call"
     /\ \E a \in ScanArgs(Sched) : ScanBegin(Sched, a.isAuto, a.req)
     /\ SchAfter(Sched)
     /\ UNCHANGED <<lockVars, tmp, st, calls, hist>>
  \/ \E a \in ScanArgs(Api) :
       /\ ScanBegin(Api, a.isAuto, a.req) /\ Called(MaxSchedCalls)
       /\ UNCHANGED <<ext, tmp, st, hist>>
  \/ \E p \in Procs : SchedScanStep(p)
  \/ \E c \in Contents, ino \in Stats :
       EnvWrite(c, ino) /\ UNCHANGED <<ext, tmp, st, calls, hist>>

\* The goroutine of Start is scheduled and its file operations end, so a scan
\* it has begun goes on.
SpecSched == Init /\ [][NextSched]_vars /\ WF_vars(SchedScanStep(Sched))

\* A step of the goroutine of Start outside its scan: it leaves the select on
\* a signal, or enters Scan.
LoopStep ==
  \/ LoopExit /\ UNCHANGED <<schRest, calls>>
  \/ /\ sch.loop = "call"
     /\ \E a \in ScanArgs(Sched) : ScanBegin(Sched, a.isAuto, a.req)
     /\ SchAfter(Sched)
     /\ UNCHANGED <<lockVars, tmp, st, calls, hist>>

\* Every goroutine is scheduled and file operations end: a scan in flight
\* goes on, the loop leaves its select once a signal is all that is ready,
\* and Stop returns from wg.Wait once the loop has returned.
SpecStop ==
  /\ Init /\ [][NextSched]_vars
  /\ \A p \in Procs : WF_vars(SchedScanStep(p))
  /\ WF_vars(LoopStep)
  /\ WF_vars(StopReturn /\ UNCHANGED <<schRest, calls>>)

\* The scheduler of a service built from a loaded configuration.
SpecConfig == InitConfig /\ [][NextSched]_vars

\* The scheduler of a service built from any Config.
SpecDirect == InitDirect /\ [][NextSched]_vars

\* Three contents of the target whose digests begin alike.
NameContents == Contents \cup {<<5>>}

\* Scans and deletes of one service within one second, the target taking
\* three contents whose digests begin alike, so that labels and file names
\* are taken one after the other; the removal of a backup file may fail, no
\* other file operation does.
NextNames ==
  \/ \E p \in Procs : \E a \in ScanArgs(p) :
       ScanBegin(p, a.isAuto, a.req) /\ Called(MaxNameCalls) /\ UNCHANGED <<ext, tmp, st, hist>>
  \/ \E p \in Procs : ScanStat(p) /\ UNCHANGED <<ext, tmp, st, calls, hist>>
  \/ \E p \in Procs, t1 \in Times, t2 \in Times :
       ScanHash(p, t1, t2) /\ UNCHANGED <<ext, tmp, st, calls, hist>>
  \/ \E p \in Procs : ScanDedup(p, FALSE) /\ UNCHANGED <<ext, tmp, st, calls, hist>>
  \/ \E p \in Procs : ScanAlloc(p, FALSE) /\ UNCHANGED <<ext, tmp, st, calls, hist>>
  \/ \E p \in Procs : ScanWrite(p, FALSE) /\ UNCHANGED <<ext, tmp, st, calls, hist>>
  \/ \E p \in Procs : ScanPersist(p, FALSE) /\ UNCHANGED <<ext, tmp, st, calls, hist>>
  \/ \E id \in Ids :
       DeleteBegin(id, FALSE) /\ Called(MaxNameCalls) /\ UNCHANGED <<ext, tmp, st, hist>>
  \/ \E fail \in BOOLEAN : DeleteRemove(fail) /\ UNCHANGED <<ext, tmp, st, calls, hist>>
  \/ \E c \in NameContents, ino \in Stats :
       EnvWrite(c, ino) /\ UNCHANGED <<ext, tmp, st, calls, hist>>

SpecNames == Init /\ [][NextNames]_vars

\* The same runs with backup files disappearing from the directory.
NextMissing ==
  \/ NextNames
  \/ EnvRemoveBackup /\ UNCHANGED <<ext, tmp, st, calls, hist>>

SpecMissing == Init /\ [][NextMissing]_vars

\* ------------------------------------------------------------------ claims
\* The persisted index as a reader finds it, and its entries.
Index == loadIndexUnlocked(indexFile).idx
Entries == Index.Items

\* C1: in one service instance, whatever the interleaving of scans, deletes,
\* label updates and restores, no two entries of the index have the same
\* content digest.
C1_DigestsUnique ==
  \A i, j \in 1..Len(Entries) :
    i # j => Entries[i].ContentHash # Entries[j].ContentHash

\* Two scans ran on the same content and the index has one entry for it: the
\* second scan answered duplicate content.
C1_Witness ==
  /\ calls = 2
  /\ last = [op |-> "Scan", res |-> [NoResult EXCEPT !.Reason = ReasonDuplicate]]
  /\ Len(Entries) = 1
  /\ target.exists /\ Entries[1].ContentHash = Sha256Hex(target.content)

NotCreated(reason) == [op |-> "Scan", res |-> [NoResult EXCEPT !.Reason = reason]]

\* The fast signature the target shows now.
TargetFingerprint == ComputeFingerprint(target).Fingerprint

\* C4: while the target's bytes and fast signature are as the last scan that
\* returned created or duplicate content left them, and no delete or restore
\* ran since, every scan (manual or scheduled, with or without a label)
\* returns created = false with reason unchanged and leaves the index file
\* (entries, label index, latest signature) and the backup directory as they
\* were.
C4_UnchangedScan ==
  [][(hist.inSync \in {"created", "duplicate"} /\ (scanMu # "" \/ scanMu' # ""))
       => /\ UNCHANGED <<indexFile, backups>>
          /\ scanMu' = "" => last' = NotCreated(ReasonUnchanged)]_vars

\* A scan returned unchanged after a scan that had created a backup, with a
\* label supplied or not.
C4_Witness ==
  /\ hist.inSync = "created"
  /\ last = NotCreated(ReasonUnchanged)
  /\ Len(Entries) = 1
  /\ calls = MaxSeqCalls

\* The target's content is already backed up but its fast signature is not the
\* latest one.
DuplicateCase ==
  /\ target.exists
  /\ TargetFingerprint # Index.LatestFingerprint
  /\ \E i \in 1..Len(Entries) : Entries[i].ContentHash = Sha256Hex(target.content)

\* C5: a scan that finds a fast signature other than the latest one and a
\* content digest some entry already has returns created = false with reason
\* duplicate content; of the persisted state only the latest signature
\* changes, to the signature found; the next scan, the target being as it was,
\* returns unchanged.
C5_DuplicateScan ==
  [][/\ \A p \in Procs : (scanMu = p /\ DuplicateCase) =>
          \/ /\ scanMu' = p
             /\ UNCHANGED <<indexFile, backups>>
          \/ /\ scanMu' = ""
             /\ last' = NotCreated(ReasonDuplicate)
             /\ backups' = backups
             /\ Index' = [Index EXCEPT !.LatestFingerprint = TargetFingerprint]
     /\ (hist.inSync = "duplicate" /\ scanMu # "" /\ scanMu' = "")
          => (last' = NotCreated(ReasonUnchanged) /\ UNCHANGED <<indexFile, backups>>)
    ]_vars

\* After a scan that answered duplicate content, the next scan answered
\* unchanged.
C5_Witness ==
  /\ hist.inSync = "duplicate"
  /\ last = NotCreated(ReasonUnchanged)
  /\ Index.LatestFingerprint = TargetFingerprint
  /\ \E i \in 1..Len(Entries) :
       /\ Entries[i].ContentHash = Sha256Hex(target.content)
       /\ Entries[i].FileFingerprint # TargetFingerprint

\* The scan of caller p meets new content and a label that resolves: none
\* supplied, or one that is not blank and that no entry carries.
NewCase(p) ==
  /\ target.exists
  /\ TargetFingerprint # Index.LatestFingerprint
  /\ \A i \in 1..Len(Entries) : Entries[i].ContentHash # Sha256Hex(target.content)
  /\ scan[p].req # <<>> =>
       /\ TrimSpace(scan[p].req[1]) # <<>>
       /\ \A i \in 1..Len(Entries) : Entries[i].Remark # TrimSpace(scan[p].req[1])

\* The index new is old with the one entry e appended.
Appended(old, new, e) ==
  /\ new.Items = Append(old.Items, e)
  /\ \A i \in 1..Len(old.Items) : old.Items[i].ID # e.ID

\* C6: a scan that finds the target present, its fast signature other than
\* the latest one, its digest in no entry and a label that resolves returns
\* created = true; it adds exactly one entry, whose content digest is the
\* digest of the bytes read, whose fast signature is the one observed and
\* whose automatic flag is the trigger's; it writes exactly one new backup
\* file, holding these bytes; and it sets the latest signature to the one
\* observed.
C6_CreatingScan ==
  [][\A p \in Procs : (scanMu = p /\ NewCase(p)) =>
       \/ /\ scanMu' = p
          /\ indexFile' = indexFile
          /\ scan[p].pc # "write" => backups' = backups
       \/ /\ scanMu' = ""
          /\ scan[p].pc = "persist"
          /\ last'.op = "Scan" /\ last'.res.Created /\ last'.res.err = ""
          /\ LET e == last'.res.Item IN
             /\ Appended(Index, Index', e)
             /\ e.ContentHash = Sha256Hex(target.content)
             /\ e.FileFingerprint = TargetFingerprint
             /\ e.IsAuto = scan[p].isAuto
             /\ e.IsAuto = (p = Sched)
             /\ Index'.LatestFingerprint = TargetFingerprint
             /\ ~FileExists(hist.pre.dir, e.Filename)
             /\ backups' = hist.pre.dir \cup {<<e.Filename, target.content>>}
    ]_vars

\* A second backup was created at the second of the first one, for content
\* with the same short digest: its file took the next free name.
C6_Witness ==
  /\ last.op = "Scan" /\ last.res.Created
  /\ hist.inSync = "created"
  /\ Len(Entries) = 2
  /\ Entries[2] = last.res.Item
  /\ Entries[2].Filename[3] = 1
  /\ Cardinality(backups) = 2

\* C3: in every persisted index state reached through AddBackup,
\* UpdateRemark, DeleteBackup and UpdateLatestFingerprint the map Remarks is
\* exactly {label -> id} over the entries with a non-empty label.
C3_RemarksExact ==
  Index.Remarks =
    {<<Entries[i].Remark, Entries[i].ID>> :
       i \in {j \in 1..Len(Entries) : Entries[j].Remark # <<>>}}

\* A label was changed on one of two entries, the other has none.
C3_Witness ==
  /\ last.op = "UpdateRemark" /\ last.res.err = "" /\ last.res.Item.Remark = <<"y">>
  /\ Len(Entries) = 2
  /\ Index.Remarks = {<<(<<"y">>), last.res.Item.ID>>}

\* The entries of items other than the one with this id, in their order.
Without(items, id) ==
  LET keep(e) == e.ID # id IN SelectSeq(items, keep)

\* C8: DeleteBackup(id) removes exactly the entry with that id and its label
\* mapping, and sets the latest signature to the fast signature of the
\* remaining entry with the greatest creation time, or to empty when no
\* entry remains; it returns the entry removed.
C8_DeleteExact ==
  [][/\ (st.op = "DeleteBackup" /\ st.pc = "rename" /\ st'.renamed) =>
          LET old == Index
              new == Index'
          IN /\ new.Items = Without(old.Items, st.id)
             /\ Len(new.Items) = Len(old.Items) - 1
             /\ new.Remarks = {r \in old.Remarks : r[2] # st.id}
             /\ new.TargetPath = old.TargetPath /\ new.HashAlgo = old.HashAlgo
             /\ IF new.Items = <<>> THEN new.LatestFingerprint = <<>>
                ELSE \E i \in 1..Len(new.Items) :
                       /\ new.LatestFingerprint = new.Items[i].FileFingerprint
                       /\ \A j \in 1..Len(new.Items) :
                            new.Items[j].CreatedAt <= new.Items[i].CreatedAt
     /\ (st.op = "DeleteBackup" /\ st.renamed /\ st'.pc = "idle") =>
          /\ last'.op = "DeleteBackup" /\ last'.res.err = ""
          /\ last'.res.Item.ID = st.id
          /\ IndexOfID(loadIndexUnlocked(st.before).idx.Items, st.id) # 0
          /\ last'.res.Item =
               LET was == loadIndexUnlocked(st.before).idx.Items
               IN was[IndexOfID(was, st.id)]
    ]_vars

\* The entry added last was deleted and two remain, the newer one first: the
\* latest signature is now that one's, which it was not before.
C8_Witness ==
  /\ st.op = "DeleteBackup" /\ st.renamed
  /\ Len(Entries) = 2
  /\ st.item.ID > Entries[2].ID
  /\ Entries[1].CreatedAt > Entries[2].CreatedAt
  /\ Index.LatestFingerprint = Entries[1].FileFingerprint
  /\ loadIndexUnlocked(st.before).idx.LatestFingerprint # Entries[1].FileFingerprint

\* Two files hold the same bytes (or both are missing).
SameContent(f, g) == f.exists = g.exists /\ f.data = g.data

\* During an update and after a crash in it, the index path holds the whole
\* document the update found or the whole document it writes.
OldOrNew ==
  st.pc # "idle" =>
    \/ SameContent(indexFile, st.before)
    \/ SameContent(indexFile, FileOf(Marshal(st.idx)))

\* C9: at every point of an update, a crash or a failing write, sync, close
\* or rename included, the index path holds either the old document or the
\* new one, whole; an update whose write fails leaves the old document and
\* returns the error, and one that returns without error leaves the new one.
C9_IndexAtomic ==
  [][/\ OldOrNew'
     /\ (st.pc \notin {"idle", "crashed"} /\ st'.pc = "idle") =>
          /\ last'.op = st.op
          /\ IF st.renamed
             THEN /\ last'.res.err = ""
                  /\ SameContent(indexFile', FileOf(Marshal(st.idx)))
             ELSE /\ last'.res.err = ErrStorage
                  /\ SameContent(indexFile', st.before)
    ]_vars

\* A crash during the write of a changed document left the old one in place.
C9_Witness ==
  /\ st.pc = "crashed"
  /\ st.before.exists
  /\ SameContent(indexFile, st.before)
  /\ ~SameContent(indexFile, FileOf(Marshal(st.idx)))

\* The call returns this error and the index file is what it was.
Rejected(op, e) ==
  /\ last' = [op |-> op, res |-> Failed(e)]
  /\ indexFile' = indexFile
  /\ st'.pc = "idle"

\* A step that is the call of op: the call goes on to its write or returns.
BeginsOrReturns(op) ==
  /\ calls' = calls + 1
  /\ IF st'.pc = "create" THEN st'.op = op ELSE st'.pc = "idle" /\ last'.op = op

\* C10: an update whose mutator reports an error (AddBackup or UpdateRemark
\* with a label another entry carries, UpdateRemark or DeleteBackup of an
\* unknown id) returns that error and leaves the persisted index as it was.
C10_MutatorError ==
  [][LET known == {Entries[i].ID : i \in 1..Len(Entries)}
         \* the labels carried by entries other than the one with this id
         taken(id) == {Entries[i].Remark : i \in {j \in 1..Len(Entries) : Entries[j].ID # id}}
                        \ {<<>>}
     IN
     /\ BeginsOrReturns("AddBackup") =>
          \A item \in StoreItems, fail \in BOOLEAN :
            (item.Remark \in taken(nextId) /\ StoreAddBackup(item, fail))
              => Rejected("AddBackup", ErrRemarkExists)
     /\ BeginsOrReturns("UpdateRemark") =>
          /\ \A id \in Ids \ known, r \in StoreRemarks, fail \in BOOLEAN :
               StoreUpdateRemark(id, r, fail)
                 => Rejected("UpdateRemark", ErrBackupNotFound)
          /\ \A id \in known, fail \in BOOLEAN :
               \A r \in StoreRemarks \cap taken(id) :
                 StoreUpdateRemark(id, r, fail)
                   => Rejected("UpdateRemark", ErrRemarkExists)
     /\ BeginsOrReturns("DeleteBackup") =>
          \A id \in Ids \ known, fail \in BOOLEAN :
            StoreDeleteBackup(id, fail)
              => Rejected("DeleteBackup", ErrBackupNotFound)
    ]_vars

\* UpdateRemark was refused a label that another entry carries.
C10_Witness ==
  /\ last = [op |-> "UpdateRemark", res |-> Failed(ErrRemarkExists)]
  /\ st.pc = "idle"
  /\ Len(Entries) = 2
  /\ Entries[1].Remark # <<>> /\ Entries[2].Remark # <<>>

\* The calls of Store.update between their load and their return.
InUpdate == {c \in Callers : upd[c].pc \in {"load", "write", "unlock"}}

\* C11: of the concurrent Store.update calls of one instance or of two
\* instances on one index path, at most one at a time is between loading the
\* index and returning, and no update is lost: the persisted index is the
\* one that results from applying every committed update in turn.
C11_UpdatesExclusive ==
  /\ Cardinality(InUpdate) <= 1
  /\ Index = lin

\* An UpdateRemark of one instance has written the index while an AddBackup
\* of the other instance waits for the file lock.
C11_Witness ==
  /\ upd["b1"].pc = "unlock" /\ upd["b1"].op = "UpdateRemark" /\ upd["b1"].err = ""
  /\ upd["a1"].pc = "flock" /\ upd["a1"].op = "AddBackup"
  /\ Len(Entries) = 1 /\ Entries[1].Remark = <<"y">>

\* The Scan calls between their Lock and their return.
InScan == {p \in Procs : scan[p].pc # "idle"}

\* C12: at most one Scan call of an instance is anywhere between its snapshot
\* and its return, whatever the kinds of the calls (scheduled and manual, or
\* two manual ones), and that call holds scanMu.
C12_OneScanInFlight ==
  /\ Cardinality(InScan) <= 1
  /\ \A p \in InScan : scanMu = p

\* A manual scan of one goroutine is writing its backup file after a manual
\* scan of the other goroutine created a backup.
C12_Witness ==
  /\ scan[Sched].pc = "write" /\ ~scan[Sched].isAuto
  /\ Len(Entries) = 1 /\ ~Entries[1].IsAuto
  /\ last.op = "Scan" /\ last.res.Created

\* Caller p's scan is about to resolve a supplied label that an entry already
\* has, on content no entry has.
LabelTaken(p) ==
  /\ scan[p].pc = "hash"
  /\ ~scan[p].isAuto
  /\ scan[p].req # <<>>
  /\ HasRemark(Index, TrimSpace(scan[p].req[1]))
  /\ target.exists
  /\ findByContentHash(Entries, Sha256Hex(target.content)) = <<>>

\* C13: a manual scan of new content whose supplied label an entry already
\* has returns the label-conflict error; the index file (entries, label
\* index, latest signature) and the backup directory are what they were when
\* the scan began, so the target still differs from the latest signature and
\* from every entry, and a scan with a free label creates the backup.
C13_ManualLabelConflict ==
  [][\A p \in Procs :
       (LabelTaken(p) /\ scan'[p] # scan[p])
         => /\ scan'[p].pc = "idle"
            /\ last' = [op |-> "Scan", res |-> Failed(ErrRemarkExists)]
            /\ indexFile' = hist.pre.file
            /\ backups' = hist.pre.dir
            /\ Index'.LatestFingerprint # ComputeFingerprint(target').Fingerprint
            /\ findByContentHash(Index'.Items, Sha256Hex(target'.content)) = <<>>]_vars

\* A manual scan has just been refused the label of the one entry; the new
\* content of the target has no backup.
C13_Witness ==
  /\ last = [op |-> "Scan", res |-> Failed(ErrRemarkExists)]
  /\ Quiet
  /\ Len(Entries) = 1 /\ Entries[1].Remark = <<"x">>
  /\ Cardinality(backups) = 1
  /\ target.exists /\ Sha256Hex(target.content) # Entries[1].ContentHash

\* The label caller p's scan is about to commit has been taken since the
\* scan resolved it.
Collides(p) ==
  /\ scan[p].pc = "persist"
  /\ HasRemark(Index, scan[p].pitem.Remark)

\* C14: when the label of a scan is taken by another writer between its
\* resolution and the commit, an automatic scan commits again under the label
\* extended by the next number, and when a commit of its succeeds the scan
\* returns created and the entry has a label no other entry has; a manual
\* scan, whether its label was supplied or made up, goes on to return the
\* label-conflict error, no entry added.
C14_ConflictAtCommit ==
  [][\A p \in Procs :
       LET sc == scan[p] IN
       /\ (Collides(p) /\ sc.isAuto /\ scan'[p] # sc)
            => /\ scan'[p].pc = "persist"
               /\ scan'[p].pitem.Remark = Append(sc.baseRemark, ToString(sc.counter))
               /\ UNCHANGED <<indexFile, backups>>
       /\ (Collides(p) /\ ~sc.isAuto /\ scan'[p] # sc)
            => /\ scan'[p].pc = "cleanup"
               /\ scan'[p].err = ErrRemarkExists
               /\ UNCHANGED <<indexFile, backups>>
       /\ (sc.pc = "cleanup" /\ sc.err = ErrRemarkExists /\ scan'[p] # sc)
            => /\ last' = [op |-> "Scan", res |-> Failed(ErrRemarkExists)]
               /\ IndexOfID(Index'.Items, sc.item.ID) = 0
               /\ UNCHANGED indexFile
       /\ (sc.pc = "persist" /\ sc.isAuto /\ sc.counter > 1 /\ scan'[p].pc = "idle")
            => /\ last'.res.Created
               /\ LET i == IndexOfID(Index'.Items, sc.item.ID) IN
                  /\ i # 0
                  /\ Index'.Items[i].Remark = sc.pitem.Remark
                  /\ \A j \in 1..Len(Index'.Items) :
                       j # i => Index'.Items[j].Remark # sc.pitem.Remark]_vars

\* An automatic scan returned created after its label was taken under way:
\* its entry has the label with the suffix, the result the label without.
C14_Witness ==
  /\ last.op = "Scan" /\ last.res.Created /\ last.res.Item.IsAuto
  /\ last.res.Item.Remark = <<"auto", FormatTime(1)>>
  /\ Len(Entries) = 2
  /\ Entries[2].ID = last.res.Item.ID
  /\ Entries[2].Remark = <<"auto", FormatTime(1), "1">>
  /\ Entries[1].Remark = <<"auto", FormatTime(1)>>

\* C15: the automatic scan's committing again under a new suffix is bounded
\* by a fixed number of attempts, after which the scan returns the
\* label-conflict error.  Stated for the bound MaxCounter: an automatic scan
\* whose commit collides when its suffix counter has reached MaxCounter gives
\* up with the label-conflict error, the index unchanged.
C15_RetryBounded ==
  [][\A p \in Procs :
       LET sc == scan[p] IN
       (Collides(p) /\ sc.isAuto /\ sc.counter >= MaxCounter /\ scan'[p] # sc)
         => /\ scan'[p].pc = "cleanup"
            /\ scan'[p].err = ErrRemarkExists
            /\ UNCHANGED indexFile]_vars

\* What persistBackup does instead: no automatic scan ever leaves its commit
\* with the label-conflict error.
C15_AutoNeverGivesUp ==
  \A p \in Procs :
    (scan[p].pc = "cleanup" /\ scan[p].isAuto) => scan[p].err # ErrRemarkExists

\* The other files of the directory are the same in the next state.
OthersKept(filename) ==
  /\ backups' \subseteq backups
  /\ \A e \in backups : e[1] # filename => e \in backups'

NoScanNoDelete ==
  /\ \A p \in Procs : scan[p].pc = "idle"
  /\ del.pc = "idle"

\* C17: whenever no scan and no delete is in progress, whatever calls were
\* made and whatever they returned, the files of the backup directory are
\* exactly the files the entries of the index name: no entry names a missing
\* file and no file is without an entry.
C17_FileIffEntry ==
  NoScanNoDelete =>
    {e[1] : e \in backups} = {Entries[i].Filename : i \in 1..Len(Entries)}

\* Every entry has its backup file, and the digest of the file's bytes is the
\* entry's content digest.
EntriesMatchFiles ==
  \A i \in 1..Len(Entries) :
    /\ FileExists(backups, Entries[i].Filename)
    /\ Sha256Hex(ReadFile(backups, Entries[i].Filename)) = Entries[i].ContentHash

\* A backup file keeps its bytes as long as it exists, and a scan that
\* returns created has stored the bytes it hashed and committed their digest.
FilesKeepBytes ==
  /\ \A e \in backups : \A f \in backups' : e[1] = f[1] => e = f
  /\ \A p \in Procs :
       LET sc == scan[p] IN
       (sc.pc = "persist" /\ scan'[p].pc = "idle")
         => /\ last'.res.Created
            /\ ReadFile(backups', sc.filename) = sc.data
            /\ last'.res.Item.ContentHash = Sha256Hex(sc.data)
            /\ \E i \in 1..Len(Index'.Items) :
                 /\ Index'.Items[i].Filename = sc.filename
                 /\ Index'.Items[i].ContentHash = Sha256Hex(sc.data)

\* C18: for every entry of the index the bytes of its backup file are the
\* bytes whose digest is the entry's content digest, also when the target is
\* rewritten while the scan runs (digest and stored bytes come from the one
\* read of the target), and a backup file is never modified after it is
\* written.
C18_BytesAreHashed == []EntriesMatchFiles /\ [][FilesKeepBytes]_vars

\* A scan has stored the bytes it hashed and is about to commit their digest
\* while the target, rewritten since the read, holds other bytes.
C18_Witness ==
  \E p \in Procs :
    /\ scan[p].pc = "persist"
    /\ target.exists /\ target.content # scan[p].data
    /\ ReadFile(backups, scan[p].filename) = scan[p].data
    /\ scan[p].item.ContentHash = Sha256Hex(scan[p].data)

\* The scheduler is stopped: Stop has returned, or Start was never called.
Stopped == ~sch.ticker

\* Nothing of the scheduler runs while it is stopped: its loop has exited (or
\* never ran) and no scan of the scheduler is in flight.
StoppedMeansNoLoop ==
  Stopped => /\ sch.loop \in {"none", "exited"}
             /\ scan[Sched].pc = "idle"
             /\ scanMu # Sched

\* Stop returns only with the loop exited and no scan of the scheduler in
\* flight, and nothing but the scan's own steps changes that scan: Stop and
\* the cancellation leave a scan in flight as it is.
StopWaits ==
  /\ (sch.stop = "wait" /\ sch'.stop = "idle")
       => sch.loop = "exited" /\ scan[Sched].pc = "idle"
  /\ (sch'.stop # sch.stop \/ sch'.ctx # sch.ctx \/ sch'.stopCh # sch.stopCh)
       => UNCHANGED <<scan, scanMu, indexFile, backups>>
  /\ (Stopped /\ Stopped') => scan'[Sched] = scan[Sched]

\* C19: Stop of a running scheduler returns only after the scheduler loop has
\* exited: a scan of the scheduler in flight when Stop is called is not
\* cancelled and runs to its end, Stop does not return while it runs, and
\* once Stop has returned no scan of the scheduler is running or starts.
C19_StopWaitsForLoop ==
  /\ []StoppedMeansNoLoop
  /\ [][StopWaits]_vars
  /\ ((sch.stop = "wait" /\ scan[Sched].pc # "idle") ~> (scan[Sched].pc = "idle"))

\* Stop was called while a scan of the scheduler was writing its backup and
\* is waiting for it.
C19_Witness ==
  /\ sch.stop = "wait"
  /\ sch.loop = "scan"
  /\ scan[Sched].pc = "persist"

\* C20: a tick of the scheduler that fires while a scan, of the scheduler or
\* manual, is in progress is skipped and not queued: the loop never waits in
\* Scan for the running scan on behalf of such a tick, and no scan of the
\* scheduler runs on its behalf.
C20_LateTickSkipped ==
  sch.forLate => /\ ~(sch.loop = "call" /\ scanMu # "")
                 /\ scan[Sched].pc = "idle"

\* C21: with a scan_interval that is not positive in the configuration file,
\* the service built from the loaded configuration and started never runs a
\* scan of the scheduler: no ticker, no loop, no tick served.
C21_NonPositiveIntervalOff ==
  (sch.file # <<>> /\ sch.file[1] <= 0)
    => /\ ~sch.ticker
       /\ sch.loop = "none"
       /\ scan[Sched].pc = "idle"

\* C22: a scan that finds no file at the target path returns not created with
\* the target-missing reason and no error, whatever the trigger and the label
\* supplied, and the index file (entries, label index, latest signature) and
\* the backup directory are what they were when the scan began.
C22_MissingTarget ==
  [][\A p \in Procs :
       (scan[p].pc = "stat" /\ ~target.exists /\ scan'[p] # scan[p])
         => /\ scan'[p].pc = "idle"
            /\ last' = [op |-> "Scan", res |-> [NoResult EXCEPT !.Reason = ReasonMissing]]
            /\ last'.res.err = "" /\ ~last'.res.Created
            /\ indexFile' = hist.pre.file
            /\ backups' = hist.pre.dir
            /\ UNCHANGED <<target, nextId>>]_vars

\* A scan has just found the target missing, with a backup in the index whose
\* signature is the latest.
C22_Witness ==
  /\ last = [op |-> "Scan", res |-> [NoResult EXCEPT !.Reason = ReasonMissing]]
  /\ Quiet
  /\ ~target.exists
  /\ Len(Entries) = 1
  /\ Cardinality(backups) = 1
  /\ Index.LatestFingerprint = Entries[1].FileFingerprint

\* The label a scan without a supplied label is to get at clock reading t:
\* the base label if no entry of the snapshot has it, else the base label
\* with the smallest number from 1 up that makes a label no entry has.
ExpectedRemark(idx, isAuto, t) ==
  LET base == <<IF isAuto THEN "auto" ELSE "manual", FormatTime(t)>>
      free(n) == ~HasRemark(idx, Append(base, ToString(n)))
      N == CHOOSE n \in 1..(Len(idx.Items) + 1) :
             free(n) /\ \A m \in 1..(n - 1) : ~free(m)
  IN IF ~HasRemark(idx, base) THEN base ELSE Append(base, ToString(N))

\* C23: when no label is supplied the label resolution of a scan does not
\* fail and gives the base label (manual- or auto- and the timestamp, by the
\* trigger) if no entry of the snapshot has it, else base-N for the smallest
\* N >= 1 no entry has; no other writer running, the scan commits its entry
\* under that label and returns created, with no label-conflict error.
C23_SynthesizedLabel ==
  [][\A p \in Procs :
       LET sc == scan[p] IN
       /\ (/\ sc.pc = "hash" /\ sc.req = <<>> /\ scan'[p] # sc
           /\ target.exists
           /\ findByContentHash(sc.idx.Items, Sha256Hex(target.content)) = <<>>)
            => /\ scan'[p].pc = "alloc"
               /\ \E t \in Times :
                    scan'[p].item.Remark = ExpectedRemark(sc.idx, sc.isAuto, t)
               /\ ~HasRemark(Index, scan'[p].item.Remark)
       /\ (sc.pc = "persist" /\ sc.req = <<>> /\ scan'[p] # sc)
            => /\ scan'[p].pc = "idle"
               /\ last'.op = "Scan" /\ last'.res.err = "" /\ last'.res.Created
               /\ last'.res.Item.Remark = sc.item.Remark
               /\ \E i \in 1..Len(Index'.Items) :
                    /\ Index'.Items[i].ID = sc.item.ID
                    /\ Index'.Items[i].Remark = sc.item.Remark]_vars

\* Three manual scans without a label within the same second: the third was
\* committed under the base label with the suffix 2.
C23_Witness ==
  /\ NoScanNoDelete
  /\ last.op = "Scan" /\ last.res.Created
  /\ last.res.Item.Remark = <<"manual", FormatTime(1), "2">>
  /\ \E i, j \in 1..Len(Entries) :
       /\ Entries[i].Remark = <<"manual", FormatTime(1)>>
       /\ Entries[j].Remark = <<"manual", FormatTime(1), "1">>

\* The file name a scan is to get for the base name in directory dir: the
\* base name if no file has it, else the base name with the smallest number
\* from 1 up that makes a name no file has.
ExpectedFilename(dir, base) ==
  LET name(n) == <<base[1], base[2], n>>
      N == CHOOSE n \in 1..(Cardinality(dir) + 1) :
             ~FileExists(dir, name(n)) /\ \A m \in 1..(n - 1) : FileExists(dir, name(m))
  IN IF ~FileExists(dir, base) THEN base ELSE name(N)

\* No two entries of the index name the same file.
FilenamesUnique ==
  \A i, j \in 1..Len(Entries) : i # j => Entries[i].Filename # Entries[j].Filename

\* The name a scan allocates is the expected one and names no file of the
\* directory, and when the scan writes its file no file has that name yet and
\* every file there stays as it is.
AllocatesFreeName ==
  \A p \in Procs :
    LET sc == scan[p] IN
    /\ (sc.pc = "alloc" /\ scan'[p] # sc)
         => /\ scan'[p].pc = "write"
            /\ scan'[p].filename = ExpectedFilename(backups, sc.filename)
            /\ ~FileExists(backups, scan'[p].filename)
    /\ (sc.pc = "write" /\ scan'[p] # sc)
         => /\ ~FileExists(backups, sc.filename)
            /\ \A i \in 1..Len(Entries) : Entries[i].Filename # sc.filename
            /\ backups' = backups \cup {<<sc.filename, sc.data>>}

\* C24: the file name allocated for a new backup never names a file that is
\* in the backup directory: it is the base name if free, else base-N for the
\* smallest N >= 1 that is free; so a scan never overwrites the backup file
\* of an entry and no two entries of the index have the same file name.
C24_FilenameFree == []FilenamesUnique /\ [][AllocatesFreeName]_vars

\* Three backups made within one second of contents whose digests begin
\* alike: their files are the base name, base-1 and base-2.
C24_Witness ==
  /\ Len(Entries) = 3
  /\ Entries[1].Filename[3] = 0
  /\ Entries[2].Filename = <<Entries[1].Filename[1], Entries[1].Filename[2], 1>>
  /\ Entries[3].Filename = <<Entries[1].Filename[1], Entries[1].Filename[2], 2>>
  /\ Cardinality(backups) = 3

\* A delete of an entry of the index takes the entry and its label out of the
\* index, whether the entry's file is there or not, and then returns without
\* error, the entry still out of the index.
DeleteOfEntrySucceeds ==
  /\ \A id \in Ids :
       (del.pc = "idle" /\ del'.pc = "remove" /\ del'.id = id)
         => /\ IndexOfID(Entries, id) # 0
            /\ del'.item = Entries[IndexOfID(Entries, id)]
            /\ IndexOfID(Index'.Items, id) = 0
            /\ ~HasRemark(Index', del'.item.Remark)
            /\ Len(Index'.Items) = Len(Entries) - 1
  /\ (del.pc = "remove" /\ del'.pc = "idle")
       => /\ last' = [op |-> "DeleteBackup", res |-> NoResult]
          /\ IndexOfID(Index'.Items, del.id) = 0
          /\ UNCHANGED indexFile

\* After a delete that returned without error the file of the deleted entry
\* is not in the backup directory.
DeletedFileGone ==
  (del.pc = "remove" /\ del'.pc = "idle") => ~FileExists(backups', del.item.Filename)

\* What DeleteBackup does when the file of the entry is missing.
C25_MissingFileTolerated == [][DeleteOfEntrySucceeds]_vars

\* C25: DeleteBackup of an entry of the index succeeds also when the entry's
\* backup file is missing: entry and label leave the index and no error is
\* returned; after a delete that succeeded neither the entry nor its label is
\* in the index and the file is not on disk.
C25_DeleteRemovesAll == [][DeleteOfEntrySucceeds /\ DeletedFileGone]_vars

\* The call failed with the not-found error.
NotFound(op) == last' = [op |-> op, res |-> Failed(ErrBackupNotFound)]

\* C26: RestoreBackup, DeleteBackup and UpdateRemark of an id that is not in
\* the index fail with the not-found error and change nothing (target, index
\* file with its entries, labels and latest signature, backup files); a
\* RestoreBackup of an entry of the index whose backup file cannot be read
\* fails with an I/O error, which is not the not-found error, and leaves the
\* target as it is.
C26_NotFoundChangesNothing ==
  [][/\ \A id \in Ids :
          IndexOfID(Entries, id) = 0
            => /\ RestoreFind(id)
                    => NotFound("RestoreBackup") /\ UNCHANGED <<target, indexFile, backups, rst>>
               /\ DeleteBegin(id, FALSE)
                    => NotFound("DeleteBackup") /\ UNCHANGED <<target, indexFile, backups, del>>
               /\ \A remark \in NewRemarks :
                    ServiceUpdateRemark(id, remark, FALSE)
                      => NotFound("UpdateRemark") /\ UNCHANGED <<target, indexFile, backups>>
     /\ (rst.pc = "read" /\ ~FileExists(backups, rst.item.Filename) /\ rst' # rst)
          => /\ last' = [op |-> "RestoreBackup", res |-> Failed(ErrIO)]
             /\ ErrIO # ErrBackupNotFound
             /\ rst' = RstIdle
             /\ UNCHANGED <<target, indexFile, backups>>]_vars

\* A restore of an id that is not in the index has just failed, with an entry
\* in the index whose content the target does not have.
C26_Witness ==
  /\ last = [op |-> "RestoreBackup", res |-> Failed(ErrBackupNotFound)]
  /\ Quiet
  /\ Len(Entries) = 1
  /\ target.exists /\ Sha256Hex(target.content) # Entries[1].ContentHash

\* C27: after a RestoreBackup that succeeded and whose refresh of the latest
\* signature was written, the target not written since, the latest signature
\* is the target's fast signature and the next scan returns not created,
\* unchanged; after one whose refresh failed the next scan adds no entry and
\* writes no file: finding a signature other than the latest one it ends as
\* duplicate content and sets the latest signature to the target's.
C27_RestoreThenScan ==
  [][/\ (rst.pc = "refresh" /\ hist'.inSync = "restored")
          => /\ last' = [op |-> "RestoreBackup", res |-> NoResult]
             /\ Index'.LatestFingerprint = ComputeFingerprint(target').Fingerprint
     /\ \A p \in Procs :
          /\ (hist.inSync = "restored" /\ scanMu = p /\ scan'[p] # scan[p])
               => /\ Index.LatestFingerprint = TargetFingerprint
                  /\ last' = NotCreated(ReasonUnchanged)
                  /\ scanMu' = ""
                  /\ UNCHANGED <<indexFile, backups>>
          /\ (hist.inSync = "stale" /\ scanMu = p /\ scan'[p] # scan[p])
               => /\ Index'.Items = Entries
                  /\ UNCHANGED backups
                  /\ \/ scanMu' = p /\ UNCHANGED indexFile
                     \/ /\ scanMu' = ""
                        /\ Index.LatestFingerprint # TargetFingerprint
                        /\ last' = NotCreated(ReasonDuplicate)
                        /\ Index'.LatestFingerprint = TargetFingerprint
                     \/ /\ scanMu' = ""
                        /\ Index.LatestFingerprint = TargetFingerprint
                        /\ last' = NotCreated(ReasonUnchanged)
                        /\ UNCHANGED indexFile]_vars

\* After a restore whose refresh failed, the next scan has found the restored
\* content in the index and is about to set the latest signature.
C27_Witness ==
  \E p \in Procs :
    /\ hist.inSync = "stale"
    /\ scan[p].pc = "dedup"
    /\ last = [op |-> "RestoreBackup", res |-> NoResult]
    /\ Index.LatestFingerprint # TargetFingerprint

\* A step of RestoreBackup: the lookup, or any later step of the call.
RestoreStep == rst' # rst \/ \E id \in Ids : RestoreFind(id)

\* The target holds bytes that no entry records and no backup file holds.
Unrecorded(t) ==
  /\ t.exists
  /\ \A i \in 1..Len(Entries) : Entries[i].ContentHash # Sha256Hex(t.content)
  /\ \A e \in backups : e[2] # t.content

\* C28: RestoreBackup writes the entry's bytes over the target and keeps no
\* copy of what the target held: its steps add no entry, remove no entry,
\* change no label and write nothing in the backup directory, and change of the
\* index file at most the latest signature, also when the target held bytes
\* that no entry records.
C28_RestoreKeepsNoCopy ==
  [][RestoreStep
       => /\ UNCHANGED backups
          /\ Index'.Items = Index.Items
          /\ Index'.Remarks = Index.Remarks
          /\ Index' = [Index EXCEPT !.LatestFingerprint = Index'.LatestFingerprint]
          /\ indexFile'.exists = indexFile.exists
          /\ target' # target
               => /\ rst.pc = "write"
                  /\ target'.exists
                  /\ target'.content = ReadFile(backups, rst.item.Filename)]_vars

\* A restore has returned after replacing the target, and of the contents a
\* target can hold one is now neither in the target, nor in an entry, nor in
\* a backup file.
C28_Witness ==
  /\ last = [op |-> "RestoreBackup", res |-> NoResult]
  /\ hist.inSync \in {"restored", "stale"}
  /\ \E c \in Contents :
       /\ target.content # c
       /\ Unrecorded([exists |-> TRUE, content |-> c, stat |-> 1])

\* The ids of the entries of an index.
IDsOf(idx) == {idx.Items[i].ID : i \in 1..Len(idx.Items)}
ItemOfID(idx, id) == idx.Items[IndexOfID(idx.Items, id)]

\* A step of Service.UpdateRemark.
UpdateRemarkStep ==
  \E id \in Ids, remark \in NewRemarks, fail \in BOOLEAN :
    ServiceUpdateRemark(id, remark, fail)

\* C29: an entry enters the index only by a scan that returns created; while
\* it is in the index its id, filename, content digest, fast signature, size,
\* creation time, automatic flag, source path and modification time stay as
\* created, whatever scans, restores, deletes and label updates run; its label
\* changes only by an UpdateRemark addressed to it, and UpdateRemark leaves
\* the latest signature and the number of entries as they were.
C29_EntriesImmutable ==
  [][/\ \A id \in IDsOf(Index) \cap IDsOf(Index') :
          /\ [ItemOfID(Index', id) EXCEPT !.Remark = ItemOfID(Index, id).Remark]
               = ItemOfID(Index, id)
          /\ ItemOfID(Index', id).Remark # ItemOfID(Index, id).Remark
               => /\ last'.op = "UpdateRemark"
                  /\ last'.res.err = ""
                  /\ last'.res.Item = ItemOfID(Index', id)
     /\ \A id \in IDsOf(Index') \ IDsOf(Index) :
          /\ last' = [op |-> "Scan",
                      res |-> [NoResult EXCEPT !.Created = TRUE,
                                               !.Item = last'.res.Item]]
          /\ last'.res.Item.ID = id
          /\ [ItemOfID(Index', id) EXCEPT !.Remark = last'.res.Item.Remark]
               = last'.res.Item
     /\ UpdateRemarkStep
          => /\ Index'.LatestFingerprint = Index.LatestFingerprint
             /\ IDsOf(Index') = IDsOf(Index)
             /\ Len(Index'.Items) = Len(Index.Items)]_vars

\* Two entries are in the index and an UpdateRemark has given one of them a
\* label it did not have when created.
C29_Witness ==
  /\ Len(Entries) = 2
  /\ last.op = "UpdateRemark"
  /\ last.res.err = ""
  /\ last.res.Item.Remark = <<"x">>
  /\ \E i \in 1..2 : Entries[i] = last.res.Item

\* The sequence out holds every item of the sequence items as many times as
\* items does, and nothing else.
SameItems(out, items) ==
  /\ Len(out) = Len(items)
  /\ \A i \in 1..Len(items) :
       Cardinality({j \in 1..Len(out) : out[j] = items[i]})
         = Cardinality({j \in 1..Len(items) : items[j] = items[i]})

\* C30: ListBackups returns the entries of the index as it is, each once, in
\* an order where no element is created before the one that follows it, and
\* leaves the index file as it was.
C30_ListBackupsSorted ==
  [][StoreListBackups
       => /\ UNCHANGED <<indexFile, backups>>
          /\ last'.res.err = loadIndexUnlocked(indexFile).err
          /\ last'.res.err = ""
               => /\ SameItems(last'.items, Entries)
                  /\ \A k \in 1..(Len(last'.items) - 1) :
                       last'.items[k].CreatedAt >= last'.items[k + 1].CreatedAt]_vars

\* Three entries created at two different times have been listed, in another
\* order than the index keeps them.
C30_Witness ==
  /\ last.op = "ListBackups"
  /\ last.res.err = ""
  /\ Len(last.items) = 3
  /\ SameItems(last.items, Entries)
  /\ last.items # Entries
  /\ last.items[1].CreatedAt > last.items[3].CreatedAt

\* C31: once the stop signal or the cancellation of the context is raised
\* while the loop waits in its select, the loop does not go on to another
\* scan, even with a tick waiting in ticker.C.
C31_ExitBeforeScan ==
  [][(sch.loop = "select" /\ (sch.ctx \/ sch.stopCh = "closed"))
       => sch'.loop # "call"]_vars

\* C32: a scan of the scheduler runs only while the scheduler is started
\* (Start called with a positive ScanInterval, Stop not yet returned), and it
\* is automatic with no label supplied; a service whose ScanInterval is not
\* positive never has a ticker, a loop or a scan of the scheduler, and its
\* Stop never waits.
C32_SchedulerScansAutomatic ==
  /\ (scan[Sched].pc # "idle" \/ scanMu = Sched)
       => /\ scan[Sched].isAuto
          /\ scan[Sched].req = <<>>
          /\ sch.interval > 0
          /\ sch.ticker
          /\ sch.loop = "scan"
  /\ \A p \in Procs :
       scan[p].pc = "persist" => scan[p].pitem.IsAuto = (p = Sched)
  /\ sch.interval <= 0
       => /\ ~sch.ticker
          /\ sch.loop = "none"
          /\ sch.stop = "idle"
          /\ scan[Sched].pc = "idle"
          /\ \A i \in 1..Len(Entries) : ~Entries[i].IsAuto

\* A scan of the running scheduler is about to commit its entry.
C32_Witness ==
  /\ sch.ticker
  /\ sch.stop = "idle"
  /\ ~sch.ctx
  /\ scan[Sched].pc = "persist"
  /\ scan[Sched].pitem.IsAuto

\* The labels the entries of an index carry.
Held(idx) == {idx.Items[i].Remark : i \in 1..Len(idx.Items)} \ {<<>>}

\* A label no entry carries is not in the label index, and UpdateRemark of
\* any entry and AddBackup of a new one take it without a conflict; a label
\* another entry carries is refused, and an entry's own label is accepted
\* with the index left as it is.
LabelRules ==
  \A r \in StoreRemarks \ {<<>>} :
    /\ r \notin Held(Index) =>
         /\ ~HasRemark(Index, r)
         /\ \A id \in IDsOf(Index) : updateRemarkMutator(Index, id, r).err = ""
         /\ addBackupMutator(Index, [ZeroItem EXCEPT !.ID = nextId, !.Remark = r],
                             <<>>).err = ""
    /\ \A id \in IDsOf(Index) :
         IF ItemOfID(Index, id).Remark = r
         THEN updateRemarkMutator(Index, id, r)
                = [err |-> "", idx |-> Index, item |-> ItemOfID(Index, id)]
         ELSE r \in Held(Index) =>
                updateRemarkMutator(Index, id, r)
                  = [err |-> ErrRemarkExists, idx |-> Index, item |-> ZeroItem]

\* The commit of an UpdateRemark that gives the entry another label, or of a
\* DeleteBackup: the label the entry had is in the label index no more and no
\* entry carries it.
LabelReleased ==
  (st.pc = "rename" /\ st'.renamed /\ st.op \in {"UpdateRemark", "DeleteBackup"}) =>
    LET was == ItemOfID(Index, st.id).Remark IN
    /\ IndexOfID(Index.Items, st.id) # 0
    /\ IF st.op = "UpdateRemark" /\ ItemOfID(Index', st.id).Remark = was
       THEN Index' = Index
       ELSE was # <<>> => ~HasRemark(Index', was) /\ was \notin Held(Index')

\* C33: a label is free as soon as its owner gives it up by UpdateRemark to
\* another or to no label, or by being deleted: it is then absent from the
\* label index and a later UpdateRemark or AddBackup takes it without a
\* conflict; UpdateRemark to the label the entry has succeeds and changes
\* nothing, and UpdateRemark to a label another entry has fails with the
\* conflict error.
C33_LabelReleased == []LabelRules /\ [][LabelReleased]_vars

\* The first entry was created with the label "x" or none and now carries "y";
\* an UpdateRemark has given "x" to the second entry.
C33_Witness ==
  /\ last.op = "UpdateRemark" /\ last.res.err = ""
  /\ last.res.Item.ID = 2 /\ last.res.Item.Remark = <<"x">>
  /\ Len(Entries) = 2
  /\ Entries[1].Remark = <<"y">>
  /\ Index.Remarks = {<<(<<"y">>), 1>>, <<(<<"x">>), 2>>}

\* C34: whatever the interleaving of a scan with a DeleteBackup, when the
\* scan returns with the delete completed, the target still as the scan read
\* it and its fast signature stored as the latest one, some entry of the
\* index has the digest of the target's content.
C34_LatestHasEntry ==
  [][\A p \in Procs :
       (/\ scan[p].pc # "idle" /\ scan'[p].pc = "idle"
        /\ del'.pc = "idle"
        /\ target'.exists
        /\ ComputeFingerprint(target').Fingerprint = scan[p].fingerprint
        /\ Sha256Hex(target'.content) = scan[p].contentHash
        /\ Index'.LatestFingerprint = ComputeFingerprint(target').Fingerprint)
         => \E i \in 1..Len(Index'.Items) :
              Index'.Items[i].ContentHash = Sha256Hex(target'.content)]_vars

BadLabel(p) ==
  /\ scan[p].req # <<>>
  /\ \/ TrimSpace(scan[p].req[1]) = <<>>
     \/ HasRemark(Index, TrimSpace(scan[p].req[1]))

\* C36: a scan looks at the label supplied only once it has found content
\* that no entry holds: with a label that is blank or in use it still returns
\* not created and no error when the target is missing, unchanged or
\* duplicate content; on new content a blank label makes it return an error
\* other than the label conflict with nothing created; every entry a scan
\* creates has a non-empty label.
C36_LabelOnlyForNewContent ==
  [][\A p \in Procs :
       (scanMu = p /\ scan'[p].pc = "idle" /\ scan[p].pc # "idle")
         => /\ (BadLabel(p) /\ scan[p].pc \in {"stat", "dedup"})
                 => /\ last'.res.err = "" /\ ~last'.res.Created
                    /\ last'.res.Reason \in {ReasonMissing, ReasonUnchanged, ReasonDuplicate}
                    /\ Index'.Items = Index.Items /\ UNCHANGED backups
            /\ (scan[p].pc = "hash" /\ scan[p].req # <<>> /\ TrimSpace(scan[p].req[1]) = <<>>)
                 => /\ last'.res.err = ErrRemarkBlank
                    /\ ErrRemarkBlank # ErrRemarkExists
                    /\ ~last'.res.Created
                    /\ UNCHANGED <<indexFile, backups>>
            /\ last'.res.Created
                 => /\ last'.res.Item.Remark # <<>>
                    /\ ItemOfID(Index', last'.res.Item.ID).Remark # <<>>]_vars

\* A scan given a label that an entry has found the target's content in the
\* index and is about to return duplicate content.
C36_Witness ==
  /\ scan[Api].pc = "dedup"
  /\ BadLabel(Api)
  /\ TrimSpace(scan[Api].req[1]) # <<>>

\* With no ticker set no loop is alive; Start does nothing while a ticker is
\* set (a second Start, or a Start after the context ended the loop with no
\* Stop since), Stop does nothing while none is set (a second Stop), and a
\* Stop that finds the loop gone returns at once.
OneLoop ==
  /\ ~sch.ticker => sch.loop \in {"none", "exited"} /\ sch.stop = "idle"
  /\ sch.ticker => ~ENABLED Start
  /\ ~sch.ticker => ~ENABLED StopBegin
  /\ (sch.stop = "wait" /\ sch.loop = "exited") => ENABLED StopReturn

\* A Start that starts a loop finds none alive and starts a fresh one, with a
\* new ticker and a new stop channel; a loop that has exited runs again only
\* by such a Start.
FreshLoop ==
  /\ (~sch.ticker /\ sch'.ticker)
       => /\ sch.loop \in {"none", "exited"}
          /\ sch'.loop = "select" /\ sch'.stopCh = "open" /\ sch'.tick = 0
  /\ (sch.loop \in {"none", "exited"} /\ sch'.loop # sch.loop)
       => ~sch.ticker /\ sch'.ticker

\* C37: with Start and Stop called one after another, at most one scheduler
\* loop is alive at any time and every Stop returns: a second Start while
\* running starts nothing, a second Stop does nothing, a Stop after the
\* cancellation of the context has ended the loop returns without waiting, a
\* Start after Stop starts a fresh loop, and a Start after a cancellation
\* with no Stop since starts none.
C37_StartStopSequences ==
  /\ []OneLoop
  /\ [][FreshLoop]_vars
  /\ ((sch.stop = "wait") ~> (sch.stop = "idle" /\ ~sch.ticker))

\* Stop has returned on a scheduler whose context was cancelled: the loop is
\* gone, the stop channel closed, and a Start would start a fresh loop.
C37_Witness ==
  /\ ~sch.ticker
  /\ sch.stop = "idle"
  /\ sch.loop = "exited"
  /\ sch.stopCh = "closed"
  /\ sch.ctx
  /\ ENABLED Start

\* A restore that has written the target has left there the bytes of the
\* entry asked for; one that has not yet holds that entry.
RestoreHolds ==
  /\ rst.pc # "idle" => rst.item.ID = rst.id
  /\ rst.pc = "write" => Sha256Hex(rst.data) = rst.item.ContentHash
  /\ rst.pc \in {"stat", "refresh"}
       => target.exists /\ Sha256Hex(target.content) = rst.item.ContentHash

\* While a restore is in flight, with deletes running beside it, the target
\* changes only by the restore's write, which puts the whole of the entry's
\* bytes there; a restore that fails returns before that write, a restore
\* that succeeds after it, and neither changes the target as it returns.
RestoreAllOrNothing ==
  /\ (rst.pc # "idle" /\ target' # target)
       => /\ rst.pc = "write" /\ rst'.pc = "stat"
          /\ target'.exists
          /\ target'.content = rst.data
          /\ Sha256Hex(target'.content) = rst.item.ContentHash
  /\ (last'.op = "RestoreBackup" /\ (rst' # rst \/ \E id \in Ids : RestoreFind(id))
      /\ rst'.pc = "idle")
       => /\ UNCHANGED target
          /\ IF last'.res.err # "" THEN rst.pc \in {"idle", "read", "write"}
             ELSE rst.pc \in {"stat", "refresh"}

\* C38: however a RestoreBackup of an entry and a DeleteBackup of the same
\* entry interleave, the restore either succeeds with the target holding
\* exactly the bytes the entry captured, or fails with the target as it was;
\* the target is never left empty, cut short or with other bytes.
C38_RestoreAllOrNothing == []RestoreHolds /\ [][RestoreAllOrNothing]_vars

\* A restore has written the bytes of an entry that a delete, begun after the
\* restore's lookup, has taken out of the index and whose file is gone.
C38_Witness ==
  /\ rst.pc \in {"stat", "refresh"}
  /\ IndexOfID(Entries, rst.id) = 0
  /\ ~FileExists(backups, rst.item.Filename)
  /\ del.pc = "idle"
  /\ last.op = "DeleteBackup" /\ last.res.err = ""
  /\ target.exists /\ Sha256Hex(target.content) = rst.item.ContentHash

====
